---- MODULE Spec2Model ----
(***************************************************************************)
(* A model of the concurrency and caching core of sc-keeper:               *)
(*   - the credit based sliding window rate limiter (rate_limit.py), in    *)
(*     its in-memory and Redis variants, driven by RateLimitMiddleware;    *)
(*   - the hot-swappable dataset manager (database.py), with its update    *)
(*     thread, the exit handler and the readers that ask for sessions;     *)
(*   - the two-tier token cache of verify_token (auth.py).                 *)
(* Time is counted in whole seconds.  Optional values are modelled as sets *)
(* with at most one element ({} is None) and optional objects as sequences *)
(* with at most one element (<<>> is None).                                *)
(***************************************************************************)
EXTENDS Integers, Sequences, FiniteSets, Bags, TLC

VARIABLES
    clock,               \* the wall clock, time.time(); also the Redis server's
    ticks,               \* how often the clock has advanced
    backend,             \* "memory" or "redis": what create_rate_limiter built
    credits_per_minute,  \* the limiter's credits_per_minute attribute
    windows,             \* InMemoryRateLimiter.windows (the fallback's, under redis)
    zsets,               \* Redis: key -> the sorted set, a set of [member, score]
    expire_at,           \* Redis: key -> the server time at which the key expires
    refwin,              \* windows of a reference InMemoryRateLimiter fed the same calls
    redis_failed,        \* history: some Redis script call has thrown
    next_id,             \* the next request id LogMiddleware hands out
    pc,                  \* per request thread: its position in dispatch
    req,                 \* per request thread: the locals of dispatch and is_allowed
    res,                 \* per request thread: outcome of the first is_allowed call
    pen,                 \* per request thread: outcome of the penalty is_allowed call
    response,            \* per request thread: the response dispatch returns
    admitted,            \* history: the credits admitted so far, per entry
    upstream,            \* sc_data's db: the version it holds (db.hash, db.path)
    tmpfiles,            \* Database.tmpfiles, oldest first
    resident,            \* the snapshot files on disk
    content,             \* per snapshot file: the upstream version copied into it
    db_hash,             \* Database.db_hash
    updated,             \* Database.updated, the ready event
    last_updated,        \* Database.last_updated, None before the first publish
    engine,              \* Database.engine: the file it is bound to, None at first
    upc,                 \* the updater thread's position in run and update
    ulocal,              \* the updater thread's locals in update
    next_file,           \* the next name NamedTemporaryFile hands out
    exited,              \* the exit handler has run
    calls,               \* history: the update() calls that have ended
    lock,                \* Database.lock: who holds it
    rpc,                 \* per reader thread: its position in sessionmaker
    rses,                \* per reader thread: the session it got, and when
    l1,                  \* auth._token_cache_l1, least recently used first
    l2,                  \* the token entries of the Redis cache, per token
    idp_calls,           \* history: introspection requests sent so far
    vpc,                 \* the verify_token call in progress: its position
    vlocal,              \* the verify_token call in progress: its locals
    vlog,                \* history: the verify_token calls that have ended
    l1_max_size,         \* auth._token_cache_l1_max_size
    pending,             \* per token: verify_token calls between L1 miss and insert
    used,                \* history: the cache keys, least recently used first
    converter,           \* CurrencyConverter.converter: the rate table, None at first
    cc_last_modified,    \* CurrencyConverter._last_modified
    next_check_at,       \* CurrencyConverter._next_check_at, None at first
    backoff_minutes,     \* CurrencyConverter._backoff_minutes
    cc_updated,          \* CurrencyConverter.updated, the event
    cpc,                 \* the currency converter's life: constructed, loaded, running
    server,              \* the ECB server: the version of the file it publishes
    checks,              \* history: update() calls made by run
    streak,              \* history: _enter_backoff calls since the last reset
    cc_last,             \* history: the last _initial_load or update() call
    conv                 \* history: the outcome of the last convert() call

timeVars == <<clock, ticks>>
confVars == <<backend, credits_per_minute>>
redisVars == <<zsets, expire_at, refwin, redis_failed>>
callVars == <<pc, req, res, pen, response>>

rlVars == <<timeVars, confVars, windows, redisVars, next_id, callVars, admitted>>

rdVars == <<rpc, rses>>

dbVars == <<upstream, tmpfiles, resident, content, db_hash, updated, last_updated,
            engine, upc, ulocal, next_file, exited, calls, lock, rdVars>>

l1Vars == <<l1_max_size, pending, used>>

authVars == <<l1, l2, idp_calls, vpc, vlocal, vlog, l1Vars>>

ccVars == <<converter, cc_last_modified, next_check_at, backoff_minutes, cc_updated,
            cpc, server, checks, streak, cc_last, conv>>

vars == <<rlVars, dbVars, authVars, ccVars>>

----------------------------------------------------------------------------
(* Bounds of the model *)

NRequests == 3          \* concurrent request threads
MaxTicks == 2           \* clock advances per behaviour, concurrent specification
SeqMaxTicks == 1        \* clock advances per behaviour, sequential specifications
BurstMaxTicks == 1      \* clock advances per behaviour, burst specification
CreditsPerMinute == 2   \* the default pool of the concurrent specification
MaxRequests == 4        \* requests of the client of the Redis specification
MaxUpdates == 4         \* update() calls of the run loop
MaxVersions == 2        \* versions the upstream database goes through
ReadUpdates == 2        \* update() calls while readers ask for sessions
MaxVerifies == 2        \* verify_token calls per behaviour, both tiers
CacheVerifies == 4      \* verify_token calls per behaviour, in-memory tier
AuthMaxTicks == 2       \* clock advances per behaviour, in-memory tier
TierMaxTicks == 1       \* clock advances per behaviour, both tiers
L1MaxSize == 2          \* AUTH_TOKEN_CACHE_L1_MAX_SIZE
NVerifiers == 2         \* verify_token calls in flight at a time
MaxChecks == 8          \* update() calls of the exchange rates' run loop, dated responses
RateChecks == 4         \* update() calls of the exchange rates' run loop
TierVerifies == 5       \* verify_token calls per behaviour, shared tier in reach
RejectVerifies == 3     \* verify_token calls per behaviour, the provider rejecting
WorkerVerifies == 1     \* verify_token calls of the other workers per behaviour

(* Program constants *)

WindowSeconds == 60
DEFAULT_CREDIT_COST == 1
UNAUTHORIZED_PENALTY_CREDITS == 10
TestCreditsPerMinute == 10
UpdateInterval == 60
L1_TTL == 60
L2_TTL == 300
BACKOFF_MIN_INIT == 1
BACKOFF_MAX_MINUTES == 60

Requests == 1..NRequests

Max(a, b) == IF a >= b THEN a ELSE b
Min(a, b) == IF a <= b THEN a ELSE b

----------------------------------------------------------------------------
(* Python truthiness of an Optional[int]: None and 0 are falsy *)
TruthyInt(o) == o # {} /\ o # {0}

ValueOf(o) == CHOOSE c \in o : TRUE

(* limit = credits_per_minute or self.credits_per_minute *)
EffectiveLimit(cpm, default) == IF TruthyInt(cpm) THEN ValueOf(cpm) ELSE default

(* a sum that counts the entries instead of their credits *)
SumCredits_CountingEntries(w) == Len(w)

RECURSIVE SumCredits(_)
SumCredits(w) ==
    IF w = <<>> THEN 0 ELSE Head(w).credits + SumCredits(Tail(w))

(* a cleaning step that drops nothing *)
Unexpired_KeepingAll(w, window_start) == w

(* clean old entries: keep those with timestamp > window_start *)
Unexpired(w, window_start) ==
    SelectSeq(w, LAMBDA e : e.timestamp > window_start)

(* a test that forgets the cost of the call *)
Exceeds_IgnoringCost(total_credits, credit_cost, limit) == total_credits > limit

(* total_credits + credit_cost > limit *)
Exceeds(total_credits, credit_cost, limit) == total_credits + credit_cost > limit

(* a limiter that records the rejected attempts too *)
InMemoryIsAllowed_RecordingAll(w, limit, now, credit_cost) ==
    LET kept == Unexpired(w, now - WindowSeconds)
        total_credits == SumCredits(kept)
    IN  [allowed |-> ~Exceeds(total_credits, credit_cost, limit),
         remaining |-> Max(0, limit - total_credits - credit_cost),
         window |-> Append(kept, [timestamp |-> now, credits |-> credit_cost])]

(* The locked section of InMemoryRateLimiter.is_allowed on one key's window.
   The whole section runs under self._lock, and every access to windows is
   inside it, so it is one atomic step. *)
InMemoryIsAllowed(w, limit, now, credit_cost) ==
    LET kept == Unexpired(w, now - WindowSeconds)
        total_credits == SumCredits(kept)
    IN  IF Exceeds(total_credits, credit_cost, limit)
        THEN [allowed |-> FALSE,
              remaining |-> Max(0, limit - total_credits),
              window |-> kept]
        ELSE [allowed |-> TRUE,
              remaining |-> limit - (total_credits + credit_cost),
              window |-> Append(kept, [timestamp |-> now, credits |-> credit_cost])]

----------------------------------------------------------------------------
(* RedisRateLimiter: the sorted set of a key holds [member, score] with
   member = <<request_id, credit_cost>>, the text "request_id:credit_cost". *)

(* tonumber(string.match(entry, ':(%d+)$')) or 0: the digits after the colon *)
ParseCost(member) == IF member[2] >= 0 THEN member[2] ELSE 0

RECURSIVE SumMembers(_)
SumMembers(z) ==
    IF z = {} THEN 0
    ELSE LET e == CHOOSE x \in z : TRUE
         IN  ParseCost(e.member) + SumMembers(z \ {e})

(* ZREMRANGEBYSCORE key 0 window_start *)
ZRemRangeByScore(z, lo, hi) == {e \in z : ~(lo <= e.score /\ e.score <= hi)}

(* ZADD key score member: a member already present only has its score updated *)
ZAdd(z, score, member) ==
    {e \in z : e.member # member} \cup {[member |-> member, score |-> score]}

(* the sorted set of a key as the server sees it at server_time *)
LiveSet(z, expires, server_time) ==
    IF z # {} /\ server_time >= expires THEN {} ELSE z

(* RATE_LIMIT_SCRIPT, run atomically by the server at server_time *)
RateLimitScript(z, expires, server_time, ARGV) ==
    LET window_start == ARGV.window_start
        now == ARGV.now
        limit == ARGV.limit
        credit_cost == ARGV.credit_cost
        member_id == ARGV.member_id
        window_seconds == ARGV.window_seconds
        entries == ZRemRangeByScore(LiveSet(z, expires, server_time), 0, window_start)
        total_credits == SumMembers(entries)
    IN  IF total_credits + credit_cost > limit
        THEN [allowed |-> FALSE,
              remaining |-> Max(0, limit - total_credits),
              zset |-> entries,
              expires |-> expires]
        ELSE [allowed |-> TRUE,
              remaining |-> limit - total_credits - credit_cost,
              zset |-> ZAdd(entries, now, member_id),
              expires |-> server_time + window_seconds]

(* a fallback limiter built anew for every failed call *)
FallbackWindow_Fresh(key) == <<>>

(* a fallback limiter that keeps one window for all keys: the fullest *)
FallbackWindow_Shared(key) ==
    windows[CHOOSE k \in DOMAIN windows :
              \A j \in DOMAIN windows : Len(windows[j]) <= Len(windows[k])]

(* the fallback limiter is the one instance built in __init__ *)
FallbackWindow(key) == windows[key]

----------------
(* RateLimitMiddleware: cost, pool and key of a request.  A path is the
   sequence of the fragments of its text, cut so that every prefix the cost
   table tests for is a whole number of fragments. *)

HealthcheckPath == <<"/healthcheck">>
ServersPath == <<"/server", "s">>
ServerPricesPath == <<"/server", "_prices">>

(* CUSTOM_RATE_LIMIT_COSTS, in the dict's insertion order *)
CUSTOM_RATE_LIMIT_COSTS ==
    << [route_path |-> ServersPath, cost |-> 3],
       [route_path |-> ServerPricesPath, cost |-> 5] >>

(* a test for the exact path only *)
StartsWith_ExactOnly(request_path, route_path) == request_path = route_path

(* request_path == route_path or request_path.startswith(route_path) *)
StartsWith(request_path, route_path) ==
    /\ Len(route_path) <= Len(request_path)
    /\ SubSeq(request_path, 1, Len(route_path)) = route_path

RECURSIVE FirstMatch(_, _, _)
FirstMatch(table, request_path, default) ==
    IF table = <<>> THEN default
    ELSE IF StartsWith(request_path, Head(table).route_path)
         THEN Head(table).cost
         ELSE FirstMatch(Tail(table), request_path, default)

CreditCostOf(request_path) ==
    FirstMatch(CUSTOM_RATE_LIMIT_COSTS, request_path, DEFAULT_CREDIT_COST)

(* the credit pool of a request: the user's, when truthy, else the limiter's *)
PoolOf(user, default) ==
    IF user # <<>> /\ TruthyInt(user[1].api_credits_per_minute)
    THEN ValueOf(user[1].api_credits_per_minute)
    ELSE default

(* a key that tells the endpoints apart *)
get_rate_limit_key_PerPath(request) == [kind |-> "ip", id |-> request.path[1]]

(* get_rate_limit_key: user id, else first X-Forwarded-For address, else the
   client host, else "unknown".  An absent and an empty header are both <<>>. *)
get_rate_limit_key(request) ==
    IF request.user # <<>> /\ request.user[1].user_id # ""
    THEN [kind |-> "user", id |-> request.user[1].user_id]
    ELSE IF request.forwarded_for # <<>>
         THEN [kind |-> "ip", id |-> Head(request.forwarded_for)]
         ELSE IF request.client # <<>>
              THEN [kind |-> "ip", id |-> request.client[1]]
              ELSE [kind |-> "ip", id |-> "unknown"]

----------------------------------------------------------------------------
(* The requests the specifications submit *)

NoUser == <<>>
UserWith(id, cpm) == << [user_id |-> id, api_credits_per_minute |-> cpm] >>

MkRequest(user, forwarded_for, client, path) ==
    [user |-> user, forwarded_for |-> forwarded_for, client |-> client, path |-> path]

(* concurrent specification: an anonymous client and a user with a pool of
   its own *)
ConcRequests ==
    { MkRequest(NoUser, <<>>, <<"10.0.0.1">>, HealthcheckPath),
      MkRequest(UserWith("u1", {1}), <<>>, <<"10.0.0.1">>, HealthcheckPath),
      MkRequest(UserWith("u1", {1}), <<>>, <<"10.0.0.1">>, ServersPath) }

(* sequential specification: the test client of tests/test_rate_limit.py *)
SeqRequests ==
    { MkRequest(NoUser, <<>>, <<"testclient">>, p) :
        p \in {HealthcheckPath, ServersPath} }

(* pool specification: users whose identity record carries no pool (None), an
   empty pool (0) or a pool of their own, and an anonymous client *)
PoolRequests ==
    { MkRequest(u, <<>>, <<"10.0.0.1">>, HealthcheckPath) :
        u \in {NoUser, UserWith("u0", {0}), UserWith("u2", {}), UserWith("u3", {3})} }

(* burst specification: direct bursts of cost-1 calls on two pools *)
BurstRequests ==
    { MkRequest(NoUser, <<>>, <<"10.0.0.1">>, HealthcheckPath),
      MkRequest(UserWith("u1", {1}), <<>>, <<"10.0.0.1">>, HealthcheckPath) }

(* cost specification: the test client on paths that the cost table lists,
   that go on after a listed path, and that it does not list *)
CostPaths ==
    { HealthcheckPath, ServersPath, ServerPricesPath, <<"/server", "s", "/aws">>,
      <<"/server", "_prices", "/aws">>, <<"/server", "/aws/m5.large">> }

CostRequests == { MkRequest(NoUser, <<>>, <<"testclient">>, p) : p \in CostPaths }

(* penalty specification: the test client on a path of each cost *)
PenaltyRequests ==
    { MkRequest(NoUser, <<>>, <<"testclient">>, p) :
        p \in {HealthcheckPath, ServersPath, ServerPricesPath} }

(* Redis specification: one anonymous client *)
RedisRequests == { MkRequest(NoUser, <<>>, <<"10.0.0.1">>, HealthcheckPath) }

Keys ==
    { get_rate_limit_key(q) : q \in ConcRequests \cup SeqRequests \cup PoolRequests }

NoKey == [kind |-> "none", id |-> ""]

(* who sends a request: everything get_rate_limit_key may look at but the path *)
IdentityOf(request) ==
    [user |-> request.user, forwarded_for |-> request.forwarded_for,
     client |-> request.client]

NoIdentity == [user |-> NoUser, forwarded_for |-> <<>>, client |-> <<>>]

IdleReq ==
    [key |-> NoKey, who |-> NoIdentity, cpm |-> 0, cost |-> 0, path |-> <<>>,
     request_id |-> 0, phase |-> "none", limit_arg |-> 0, call_cost |-> 0,
     now |-> 0]

NoRes ==
    [done |-> FALSE, allowed |-> FALSE, remaining |-> 0, limit |-> 0, cost |-> 0,
     now |-> 0, key |-> NoKey, who |-> NoIdentity, via |-> "none", dropped |-> 0,
     ref_allowed |-> FALSE, ref_remaining |-> 0, before |-> EmptyBag]

----------------------------------------------------------------------------
(* History of admitted entries: a bag of [key, who, limit, ts, path, via] in
   which an element occurs as often as the credits admitted for it. *)

RECURSIVE SumOver(_, _)
SumOver(S, b) ==
    IF S = {} THEN 0
    ELSE LET e == CHOOSE x \in S : TRUE
         IN  b[e] + SumOver(S \ {e}, b)

(* total cost of the entries S of history b *)
CostOf(b, S) == SumOver(S, b)

Record(q, limit, via) ==
    LET e == [key |-> q.key, who |-> q.who, limit |-> limit, ts |-> q.now,
              path |-> q.path, via |-> via]
    IN  [x \in {e} |-> q.call_cost]

(* the outcome of a call, with what had been admitted before it; ref is the
   decision of the reference in-memory limiter on the same call *)
Outcome(out, ref, dropped, q, limit, via) ==
    [done |-> TRUE, allowed |-> out.allowed, remaining |-> out.remaining,
     limit |-> limit, cost |-> q.call_cost, now |-> q.now, key |-> q.key,
     who |-> q.who, via |-> via, dropped |-> dropped,
     ref_allowed |-> ref.allowed, ref_remaining |-> ref.remaining,
     before |-> admitted]

NoResponse == <<>>

(* a response with the X-RateLimit-Limit, -Cost and -Remaining headers *)
Response(status_code, limit, cost, remaining) ==
    << [status_code |-> status_code, limit |-> limit, cost |-> cost,
        remaining |-> remaining] >>

(* the 401 response after the penalty call: credit_cost and
   remaining_credits are adjusted by the penalty *)
Penalized(q, remaining_credits) ==
    Response(401, q.cpm, q.cost + UNAUTHORIZED_PENALTY_CREDITS,
             Max(0, remaining_credits - UNAUTHORIZED_PENALTY_CREDITS))

(* is_allowed returns to dispatch: the first call leads to the handler or to
   the 429 response, the penalty call to the end of dispatch *)
Return(r, o) ==
    /\ IF req[r].phase = "first"
       THEN /\ res' = [res EXCEPT ![r] = o]
            /\ pen' = pen
            /\ pc' = [pc EXCEPT ![r] = IF o.allowed THEN "handler" ELSE "done"]
            /\ response' = IF o.allowed THEN response
                           ELSE [response EXCEPT ![r] =
                                   Response(429, req[r].cpm, req[r].cost, o.remaining)]
       ELSE /\ pen' = [pen EXCEPT ![r] = o]
            /\ res' = res
            /\ pc' = [pc EXCEPT ![r] = "done"]
            /\ response' = [response EXCEPT ![r] = Penalized(req[r], res[r].remaining)]
    /\ admitted' = IF o.allowed
                   THEN admitted (+) Record(req[r], o.limit, o.via)
                   ELSE admitted

----------------------------------------------------------------------------
(* Actions of RateLimitMiddleware.dispatch *)

(* dispatch up to the clock read of the first is_allowed call *)
Begin(r, request) ==
    /\ pc[r] = "idle"
    /\ \A x \in 1..(r - 1) : pc[x] # "idle"   \* threads are interchangeable
    /\ req' = [req EXCEPT ![r] =
                 [key |-> get_rate_limit_key(request),
                  who |-> IdentityOf(request),
                  cpm |-> PoolOf(request.user, credits_per_minute),
                  cost |-> CreditCostOf(request.path),
                  path |-> request.path,
                  request_id |-> next_id,
                  phase |-> "first",
                  limit_arg |-> PoolOf(request.user, credits_per_minute),
                  call_cost |-> CreditCostOf(request.path),
                  now |-> clock]]
    /\ pc' = [pc EXCEPT ![r] = "call"]
    /\ next_id' = IF backend = "redis" THEN next_id + 1 ELSE next_id
    /\ UNCHANGED <<timeVars, confVars, windows, redisVars, res, pen, response, admitted,
                   dbVars, authVars, ccVars>>

(* the locked section of InMemoryRateLimiter.is_allowed *)
MemCall(r) ==
    /\ pc[r] = "call"
    /\ backend = "memory"
    /\ LET q == req[r]
           limit == EffectiveLimit({q.limit_arg}, credits_per_minute)
           w == windows[q.key]
           out == InMemoryIsAllowed(w, limit, q.now, q.call_cost)
           dropped == Len(w) - Len(Unexpired(w, q.now - WindowSeconds))
       IN  /\ windows' = [windows EXCEPT ![q.key] = out.window]
           /\ Return(r, Outcome(out, out, dropped, q, limit, "memory"))
    /\ UNCHANGED <<timeVars, confVars, redisVars, next_id, req, dbVars, authVars, ccVars>>

(* call_next returns; on 401 dispatch makes the penalty call, which reads the
   clock *)
CallNext(r, status_code) ==
    /\ pc[r] = "handler"
    /\ IF status_code = 401
       THEN /\ pc' = [pc EXCEPT ![r] = "call"]
            /\ req' = [req EXCEPT
                         ![r].phase = "penalty",
                         ![r].limit_arg = req[r].cpm + UNAUTHORIZED_PENALTY_CREDITS,
                         ![r].call_cost = UNAUTHORIZED_PENALTY_CREDITS,
                         ![r].now = clock]
            /\ response' = response
       ELSE /\ pc' = [pc EXCEPT ![r] = "done"]
            /\ req' = req
            /\ response' = [response EXCEPT ![r] =
                              Response(status_code, req[r].cpm, req[r].cost,
                                       res[r].remaining)]
    /\ UNCHANGED <<timeVars, confVars, windows, redisVars, next_id, res, pen,
                   admitted, dbVars, authVars, ccVars>>

(* a member named after the request alone, with the default cost *)
MemberId_PerRequest(request_id, credit_cost) == <<request_id, DEFAULT_CREDIT_COST>>

(* member_id = f"{request_id}:{credit_cost}" *)
MemberId(request_id, credit_cost) == <<request_id, credit_cost>>

(* the args RedisRateLimiter.is_allowed passes to the script *)
ScriptArgs(q, limit, member_id) ==
    [window_start |-> q.now - WindowSeconds, now |-> q.now, limit |-> limit,
     credit_cost |-> q.call_cost, member_id |-> member_id,
     window_seconds |-> WindowSeconds]

(* RedisRateLimiter.is_allowed: the script runs on the server and answers *)
RedisCall(r) ==
    /\ pc[r] = "call"
    /\ backend = "redis"
    /\ LET q == req[r]
           limit == EffectiveLimit({q.limit_arg}, credits_per_minute)
           member_id == MemberId(q.request_id, q.call_cost)
           z == zsets[q.key]
           out == RateLimitScript(z, expire_at[q.key], clock,
                                  ScriptArgs(q, limit, member_id))
           ref == InMemoryIsAllowed(refwin[q.key], limit, q.now, q.call_cost)
           dropped == Cardinality(z) - Cardinality(out.zset \ {e \in out.zset :
                                                      e.member = member_id})
       IN  /\ zsets' = [zsets EXCEPT ![q.key] = out.zset]
           /\ expire_at' = [expire_at EXCEPT ![q.key] = out.expires]
           /\ refwin' = [refwin EXCEPT ![q.key] = ref.window]
           /\ Return(r, Outcome(out, ref, dropped, q, limit, "redis"))
    /\ UNCHANGED <<timeVars, confVars, windows, redis_failed, next_id, req, dbVars,
                   authVars, ccVars>>

(* the script call throws, whether or not the server ran the script; the
   fallback limiter's is_allowed starts and reads the clock *)
RedisFail(r, executed) ==
    /\ pc[r] = "call"
    /\ backend = "redis"
    /\ LET q == req[r]
           limit == EffectiveLimit({q.limit_arg}, credits_per_minute)
           member_id == MemberId(q.request_id, q.call_cost)
           out == RateLimitScript(zsets[q.key], expire_at[q.key], clock,
                                  ScriptArgs(q, limit, member_id))
       IN  /\ zsets' = IF executed THEN [zsets EXCEPT ![q.key] = out.zset] ELSE zsets
           /\ expire_at' = IF executed
                           THEN [expire_at EXCEPT ![q.key] = out.expires]
                           ELSE expire_at
    /\ redis_failed' = TRUE
    /\ pc' = [pc EXCEPT ![r] = "fallback"]
    /\ req' = [req EXCEPT ![r].now = clock]
    /\ UNCHANGED <<timeVars, confVars, windows, refwin, next_id, res, pen, response, admitted,
                   dbVars, authVars, ccVars>>

(* the locked section of the fallback limiter's is_allowed *)
Fallback(r) ==
    /\ pc[r] = "fallback"
    /\ LET q == req[r]
           limit == EffectiveLimit({q.limit_arg}, credits_per_minute)
           w == FallbackWindow(q.key)
           out == InMemoryIsAllowed(w, limit, q.now, q.call_cost)
           dropped == Len(w) - Len(Unexpired(w, q.now - WindowSeconds))
       IN  /\ windows' = [windows EXCEPT ![q.key] = out.window]
           /\ Return(r, Outcome(out, out, dropped, q, limit, "fallback"))
    /\ UNCHANGED <<timeVars, confVars, redisVars, next_id, req, dbVars, authVars, ccVars>>

(* time passes *)
ConcJumps == {1, WindowSeconds - 1}
SeqJumps == {WindowSeconds - 1, WindowSeconds + 1}

Tick(d, max) ==
    /\ ticks < max
    /\ ticks' = ticks + 1
    /\ clock' = clock + d
    /\ UNCHANGED <<confVars, windows, redisVars, next_id, callVars, admitted, dbVars,
                   authVars, ccVars>>

(* the sequential client sends its next request *)
NextRequest(r) ==
    /\ pc[r] = "done"
    /\ backend = "redis" => next_id <= MaxRequests
    /\ pc' = [pc EXCEPT ![r] = "idle"]
    /\ req' = [req EXCEPT ![r] = IdleReq]
    /\ res' = [res EXCEPT ![r] = NoRes]
    /\ pen' = [pen EXCEPT ![r] = NoRes]
    /\ response' = [response EXCEPT ![r] = NoResponse]
    /\ UNCHANGED <<timeVars, confVars, windows, redisVars, next_id, admitted, dbVars,
                   authVars, ccVars>>

----------------------------------------------------------------------------
(* The dataset manager: class Database of database.py and its run loop *)

Files == 1..MaxUpdates
NoFile == 0
NoVersion == 0
(* the request handler threads that ask for a session *)
Readers == {1, 2}

NoLocals ==
    [force |-> FALSE, ready_before |-> FALSE, hash_before |-> NoVersion,
     engine_before |-> <<>>, last_updated_before |-> {}, exited_before |-> FALSE,
     seen |-> NoVersion, tmpfile |-> NoFile]

(* Database.ready *)
ready == updated

(* a condition that does not look at the hash *)
NeedsUpdate_IgnoringHash(is_ready, hash, upstream_hash, force) == ~is_ready \/ force

(* the condition of update() under which it refreshes *)
NeedsUpdate(is_ready, hash, upstream_hash, force) ==
    ~is_ready \/ hash # upstream_hash \/ force

(* cleanup(keep) on the deque tf: what stays tracked and what is unlinked *)
(* a cleanup that keeps one file more *)
Kept_OneMore(tf, keep) == SubSeq(tf, Max(0, Len(tf) - keep - 1) + 1, Len(tf))
Kept(tf, keep) == SubSeq(tf, Max(0, Len(tf) - keep) + 1, Len(tf))
Unlinked(tf, keep) == {tf[i] : i \in 1..Max(0, Len(tf) - keep)}

cleanup(keep) ==
    /\ tmpfiles' = Kept(tmpfiles, keep)
    /\ resident' = resident \ Unlinked(tmpfiles, keep)
    /\ updated' = IF Len(Kept(tmpfiles, keep)) = 0 THEN FALSE ELSE updated

(* self.lock: taken by `with self.lock`, free again at the end of the block *)
Free == "free"
Held(lk, who) == lk = who
(* a lock that stays with the updater after its block *)
Released_KeepingLock == "updater"
Released == Free

(* the locals of update() once it has evaluated its condition *)
Locals(force) ==
    [force |-> force, ready_before |-> ready, hash_before |-> db_hash,
     engine_before |-> engine, last_updated_before |-> last_updated,
     exited_before |-> exited, seen |-> upstream, tmpfile |-> NoFile]

(* one update() call has ended: by returning or by raising into run *)
CallRecord(l, refreshed, raised, seen_at_publish, ready_after) ==
    [force |-> l.force, ready_before |-> l.ready_before,
     hash_before |-> l.hash_before, engine_before |-> l.engine_before,
     last_updated_before |-> l.last_updated_before,
     exited_before |-> l.exited_before, seen |-> l.seen, tmpfile |-> l.tmpfile,
     seen_at_publish |-> seen_at_publish, refreshed |-> refreshed,
     raised |-> raised, hash_after |-> db_hash, engine_after |-> engine,
     last_updated_after |-> last_updated, ready_after |-> ready_after,
     exited |-> exited]

(* the history keeps the last MaxUpdates calls *)
Logged(record) ==
    IF Len(calls) < MaxUpdates THEN Append(calls, record)
    ELSE Append(Tail(calls), record)

EndCall(record) ==
    /\ calls' = Logged(record)
    /\ upc' = "sleep"
    /\ ulocal' = NoLocals

(* run calls update(force), as long as the history has fewer than limit
   calls; update evaluates its condition and, when there is nothing to do,
   returns *)
Update(force, limit) ==
    /\ upc = "idle"
    /\ Len(calls) < limit
    /\ IF NeedsUpdate(ready, db_hash, upstream, force)
       THEN /\ upc' = "copy"
            /\ ulocal' = Locals(force)
            /\ calls' = calls
       ELSE /\ upc' = "sleep"
            /\ ulocal' = NoLocals
            /\ calls' = Logged(CallRecord(Locals(force), FALSE, FALSE, upstream, ready))
    /\ UNCHANGED <<rlVars, authVars, ccVars, upstream, tmpfiles, resident, content, db_hash,
                   updated, last_updated, engine, next_file, exited, lock, rdVars>>

(* the name NamedTemporaryFile hands out when names of deleted files come
   back: the first one not on disk *)
FirstFree == CHOOSE f \in Files \ resident : \A g \in Files \ resident : f <= g

(* NamedTemporaryFile creates file f, copyfile fills it; copyfile may raise,
   leaving the new file *)
CopyFile(ok, f) ==
    /\ upc = "copy"
    /\ f \in Files \ resident
    /\ resident' = resident \cup {f}
    /\ next_file' = Max(next_file, f + 1)
    /\ IF ok
       THEN /\ content' = [content EXCEPT ![f] = upstream]
            /\ ulocal' = [ulocal EXCEPT !.tmpfile = f]
            /\ upc' = "append"
            /\ calls' = calls
       ELSE /\ content' = [content EXCEPT ![f] = NoVersion]
            /\ EndCall(CallRecord(ulocal, FALSE, TRUE, ulocal.seen, ready))
    /\ UNCHANGED <<rlVars, authVars, ccVars, upstream, tmpfiles, db_hash, updated,
                   last_updated, engine, exited, lock, rdVars>>

(* the updater enters one of its `with self.lock` blocks *)
Acquire ==
    /\ upc \in {"append", "publish", "cleanup"}
    /\ lock = Free
    /\ lock' = "updater"
    /\ UNCHANGED <<rlVars, authVars, ccVars, upstream, tmpfiles, resident, content, db_hash,
                   updated, last_updated, engine, upc, ulocal, next_file, exited,
                   calls, rdVars>>

(* an update that takes over the upstream hash when it tracks the file *)
AppendTmpfile_SettingHash ==
    /\ upc = "append"
    /\ Held(lock, "updater")
    /\ tmpfiles' = Append(tmpfiles, ulocal.tmpfile)
    /\ db_hash' = upstream
    /\ upc' = "augment"
    /\ lock' = Released
    /\ UNCHANGED <<rlVars, authVars, ccVars, upstream, resident, content, updated,
                   last_updated, engine, ulocal, next_file, exited, calls, rdVars>>

(* with self.lock: self.tmpfiles.append(tmpfile) *)
AppendTmpfile ==
    /\ upc = "append"
    /\ Held(lock, "updater")
    /\ tmpfiles' = Append(tmpfiles, ulocal.tmpfile)
    /\ upc' = "augment"
    /\ lock' = Released
    /\ UNCHANGED <<rlVars, authVars, ccVars, upstream, resident, content, db_hash, updated,
                   last_updated, engine, ulocal, next_file, exited, calls, rdVars>>

(* create_engine, the indexes, the views, VACUUM and ANALYZE; any may raise *)
Augment(ok) ==
    /\ upc = "augment"
    /\ IF ok
       THEN /\ upc' = "publish"
            /\ UNCHANGED <<ulocal, calls>>
       ELSE EndCall(CallRecord(ulocal, FALSE, TRUE, ulocal.seen, ready))
    /\ UNCHANGED <<rlVars, authVars, ccVars, upstream, tmpfiles, resident, content, db_hash,
                   updated, last_updated, engine, next_file, exited, lock, rdVars>>

(* with self.lock: engine, db_hash (db.hash is read again), last_updated and
   the event are swapped *)
Publish ==
    /\ upc = "publish"
    /\ Held(lock, "updater")
    /\ engine' = <<ulocal.tmpfile>>
    /\ db_hash' = upstream
    /\ last_updated' = {clock}
    /\ updated' = TRUE
    /\ upc' = "cleanup"
    /\ lock' = Released
    /\ UNCHANGED <<rlVars, authVars, ccVars, upstream, tmpfiles, resident, content, ulocal,
                   next_file, exited, calls, rdVars>>

(* self.cleanup(2), and update() returns *)
CleanupOld ==
    /\ upc = "cleanup"
    /\ Held(lock, "updater")
    /\ cleanup(2)
    /\ lock' = Released
    /\ EndCall(CallRecord(ulocal, TRUE, FALSE, db_hash,
                          IF Len(Kept(tmpfiles, 2)) = 0 THEN FALSE ELSE ready))
    /\ UNCHANGED <<rlVars, authVars, ccVars, upstream, content, db_hash, last_updated, engine,
                   next_file, exited, rdVars>>

(* run: sleep(60), d seconds on the clock of the model *)
Sleep(d) ==
    /\ upc = "sleep"
    /\ upc' = "idle"
    /\ clock' = clock + d
    /\ UNCHANGED <<ticks, confVars, windows, redisVars, next_id, callVars, admitted,
                   authVars, ccVars, upstream, tmpfiles, resident, content, db_hash,
                   updated, last_updated, engine, ulocal, next_file, exited, calls,
                   lock, rdVars>>

(* sc_data installs a new version of the database *)
UpstreamChange ==
    /\ upstream < MaxVersions
    /\ upstream' = upstream + 1
    /\ UNCHANGED <<rlVars, authVars, ccVars, tmpfiles, resident, content, db_hash, updated,
                   last_updated, engine, upc, ulocal, next_file, exited, calls,
                   lock, rdVars>>

(* safe_exit runs session.cleanup, that is cleanup(0), in the exiting thread *)
ExitCleanup ==
    /\ ~exited
    /\ lock = Free
    /\ exited' = TRUE
    /\ cleanup(0)
    /\ UNCHANGED <<rlVars, authVars, ccVars, upstream, content, db_hash, last_updated, engine,
                   upc, ulocal, next_file, calls, lock, rdVars>>

(* Readers: the sessionmaker property *)

NoSession ==
    [returned |-> FALSE, engine |-> <<>>, called_loaded |-> FALSE,
     returned_during |-> "none", preparing |-> NoFile, published |-> <<>>]

(* a wait that returns whether or not the event is set *)
MayPass_Always(event) == TRUE

(* Event.wait() returns once the event is set *)
MayPass(event) == event

(* the engine of the last update() call that published *)
LastPublished ==
    LET S == {i \in 1..Len(calls) : calls[i].refreshed}
    IN  IF S = {} THEN <<>>
        ELSE calls[CHOOSE i \in S : \A j \in S : j <= i].engine_after

(* a request handler asks for session.sessionmaker *)
SessionCall(r) ==
    /\ rpc[r] = "idle"
    /\ \A x \in 1..(r - 1) : rpc[x] # "idle"   \* readers are interchangeable
    /\ rpc' = [rpc EXCEPT ![r] = "wait"]
    /\ rses' = [rses EXCEPT ![r].called_loaded = (last_updated # {})]
    /\ UNCHANGED <<rlVars, authVars, ccVars, upstream, tmpfiles, resident, content, db_hash,
                   updated, last_updated, engine, upc, ulocal, next_file, exited,
                   calls, lock>>

(* self.updated.wait() returns *)
SessionWait(r) ==
    /\ rpc[r] = "wait"
    /\ MayPass(updated)
    /\ rpc' = [rpc EXCEPT ![r] = "lock"]
    /\ UNCHANGED <<rlVars, authVars, ccVars, upstream, tmpfiles, resident, content, db_hash,
                   updated, last_updated, engine, upc, ulocal, next_file, exited,
                   calls, lock, rses>>

(* with self.lock: return Session(bind=self.engine) *)
SessionReturn(r) ==
    /\ rpc[r] = "lock"
    /\ lock = Free
    /\ rpc' = [rpc EXCEPT ![r] = "done"]
    /\ rses' = [rses EXCEPT ![r].returned = TRUE,
                            ![r].engine = engine,
                            ![r].returned_during = upc,
                            ![r].preparing = ulocal.tmpfile,
                            ![r].published = LastPublished]
    /\ UNCHANGED <<rlVars, authVars, ccVars, upstream, tmpfiles, resident, content, db_hash,
                   updated, last_updated, engine, upc, ulocal, next_file, exited,
                   calls, lock>>

(* Database.__init__ and session.start() *)
InitDatabase ==
    /\ upstream = 1
    /\ tmpfiles = <<>>
    /\ resident = {}
    /\ content = [f \in Files |-> NoVersion]
    /\ db_hash = upstream
    /\ updated = FALSE
    /\ last_updated = {}
    /\ engine = <<>>
    /\ upc = "idle"
    /\ ulocal = NoLocals
    /\ next_file = 1
    /\ exited = FALSE
    /\ calls = <<>>
    /\ lock = Free
    /\ rpc = [r \in Readers |-> "idle"]
    /\ rses = [r \in Readers |-> NoSession]

----------------------------------------------------------------------------
(* The token cache of auth.py and verify_token *)

Tokens == {"t1", "t2", "t3"}

(* _get_token_cache_key: the salted SHA-256 of the token *)
get_token_cache_key(token) == <<"sha256", token>>

(* the Redis key of a cache key *)
L2Key(cache_key) == <<"token:", cache_key>>
L2Keys == {L2Key(get_token_cache_key(t)) : t \in Tokens}

(* what the introspection endpoint answers for an active token *)
Introspection(token) ==
    CASE token = "t1" -> [sub |-> "u1", api_credits_per_minute |-> {}]
      [] token = "t2" -> [sub |-> "u2", api_credits_per_minute |-> {5}]
      [] OTHER -> [sub |-> "u3", api_credits_per_minute |-> {}]

(* User(user_id=user_id, api_credits_per_minute=user_data.get(...)) *)
UserOf(user_data) == UserWith(user_data.sub, user_data.api_credits_per_minute)

(* json_dumps of the user, and the User built from json_loads of it *)
UserJson(user) == <<"json", user[1].user_id, user[1].api_credits_per_minute>>
UserFromJson(data) == UserWith(data[2], data[3])

(* an expiry test that finds an entry expired once it is as old as the TTL *)
Expired_AtTTL(now, cached_time) == now - cached_time >= L1_TTL

(* an expiry test that never finds an entry expired *)
Expired_Never(now, cached_time) == FALSE

(* time.time() - cached_time > _token_cache_l1_ttl *)
Expired(now, cached_time) == now - cached_time > L1_TTL

InCache(cache, key) == \E i \in 1..Len(cache) : cache[i].key = key
EntryOf(cache, key) == cache[CHOOSE i \in 1..Len(cache) : cache[i].key = key]
Popped(cache, key) == SelectSeq(cache, LAMBDA e : e.key # key)

(* _get_cached_token_user_l1: the cache it leaves and the user it returns *)
L1Get(cache, key, now) ==
    IF ~InCache(cache, key)
    THEN [cache |-> cache, user |-> <<>>]
    ELSE IF Expired(now, EntryOf(cache, key).cached_time)
         THEN [cache |-> Popped(cache, key), user |-> <<>>]
         ELSE [cache |-> Append(Popped(cache, key), EntryOf(cache, key)),
               user |-> EntryOf(cache, key).user]

(* while len(cache) >= size: cache.popitem(last=False) *)
RoomMade_Unbounded(cache, size) == cache

RoomMade(cache, size) ==
    IF Len(cache) >= size THEN SubSeq(cache, Len(cache) - size + 2, Len(cache))
    ELSE cache

(* cache[key] = value: a key already there keeps its place *)
Assigned(cache, key, value) ==
    IF InCache(cache, key)
    THEN [i \in 1..Len(cache) |-> IF cache[i].key = key THEN value ELSE cache[i]]
    ELSE Append(cache, value)

(* an insert that leaves the cache as it is *)
L1Put_Skipped(cache, key, user, now) == cache

(* _cache_token_user_l1 *)
L1Put(cache, key, user, now) ==
    LET live == SelectSeq(cache, LAMBDA e : ~Expired(now, e.cached_time))
    IN  Assigned(RoomMade(live, l1_max_size), key,
                 [key |-> key, user |-> user, cached_time |-> now])

(* a read that answers from the store although Redis is unreachable *)
L2Get_IgnoringFailure(entry, ok, now) ==
    IF entry # <<>> /\ now < entry[1].expires THEN UserFromJson(entry[1].data)
    ELSE <<>>

(* a read that finds the entries that Redis has expired *)
L2Get_Unexpiring(entry, ok, now) ==
    IF ok /\ entry # <<>> THEN UserFromJson(entry[1].data) ELSE <<>>

(* _get_cached_token_user_l2: redis GET, None when it raises or misses *)
L2Get(entry, ok, now) ==
    IF ok /\ entry # <<>> /\ now < entry[1].expires THEN UserFromJson(entry[1].data)
    ELSE <<>>

(* _cache_token_user_l2: redis SETEX, nothing when it raises *)
L2Put(store, key, user, ok, now) ==
    IF ok THEN [store EXCEPT ![key] = <<[data |-> UserJson(user), expires |-> now + L2_TTL]>>]
    ELSE store

NoVerify == [token |-> "", began |-> 0, client |-> FALSE, failed |-> {}, l1_before |-> <<>>]

(* one verify_token call has returned *)
Verified(l, via, resp, failed, result, cache) ==
    [token |-> l.token, began |-> l.began, ended |-> clock,
     l1_before |-> l.l1_before, via |-> via, resp |-> resp,
     failed |-> failed, result |-> result, l1_after |-> cache]

(* the Redis steps of a call that raised *)
FailedSteps(configured, client_ok, read_ok) ==
    IF ~configured THEN {}
    ELSE IF ~client_ok THEN {"client"}
    ELSE IF ~read_ok THEN {"read"} ELSE {}

(* the tokens are interchangeable: a call presents a token seen before or
   the next new one *)
Presented == {vlog[i].token : i \in 1..Len(vlog)}
Offered(t) ==
    \/ t \in Presented
    \/ t = "t1"
    \/ t = "t2" /\ "t1" \in Presented
    \/ t = "t3" /\ "t2" \in Presented

(* verify_token up to the introspection request, as long as fewer than
   limit calls have been made: L1, then Redis when REDIS_URL is set;
   client_ok and read_ok say whether get_redis_client and the GET succeed *)
VerifyBegin(token, limit, configured, client_ok, read_ok) ==
    /\ vpc = "idle"
    /\ Len(vlog) < limit
    /\ Offered(token)
    /\ LET key == get_token_cache_key(token)
           got == L1Get(l1, key, clock)
           l == [token |-> token, began |-> clock, client |-> configured /\ client_ok,
                 failed |-> FailedSteps(configured, client_ok, read_ok), l1_before |-> l1]
           cached == IF configured /\ client_ok
                     THEN L2Get(l2[L2Key(key)], read_ok, clock) ELSE <<>>
       IN  IF got.user # <<>>
           THEN /\ l1' = got.cache
                /\ vlog' = Append(vlog, Verified(l, "l1", "none", {}, got.user, got.cache))
                /\ UNCHANGED <<vpc, vlocal>>
           ELSE IF cached # <<>>
           THEN /\ l1' = L1Put(got.cache, key, cached, clock)
                /\ vlog' = Append(vlog, Verified(l, "l2", "none", l.failed, cached,
                                                 L1Put(got.cache, key, cached, clock)))
                /\ UNCHANGED <<vpc, vlocal>>
           ELSE /\ l1' = got.cache
                /\ vpc' = "idp"
                /\ vlocal' = l
                /\ vlog' = vlog
    /\ UNCHANGED <<rlVars, dbVars, ccVars, l2, idp_calls, l1Vars>>

(* a verify_token that remembers in L1 that the validation failed *)
VerifyIdP_CachingFailure(resp, write_ok) ==
    /\ vpc = "idp"
    /\ idp_calls' = Append(idp_calls, [token |-> vlocal.token, at |-> clock, worker |-> 1])
    /\ LET key == get_token_cache_key(vlocal.token)
           user == IF resp = "ok" THEN UserOf(Introspection(vlocal.token)) ELSE <<>>
       IN  /\ l1' = L1Put(l1, key, user, clock)
           /\ l2' = IF vlocal.client /\ resp = "ok"
                    THEN L2Put(l2, L2Key(key), user, write_ok, clock) ELSE l2
           /\ vlog' = Append(vlog, Verified(vlocal, "idp", resp, vlocal.failed, user,
                                            L1Put(l1, key, user, clock)))
    /\ vpc' = "idle"
    /\ vlocal' = NoVerify
    /\ UNCHANGED <<rlVars, dbVars, ccVars, l1Vars>>

(* verify_token from the introspection request on: resp is the outcome of
   the request ("ok": an active token with its sub; "nosub": no sub in the
   answer; "rule": the AUTH_TOKEN_VALIDATION_CEL rule is not satisfied or
   raises; "error": the request raised), write_ok whether the SETEX
   succeeds *)
VerifyIdP(resp, write_ok) ==
    /\ vpc = "idp"
    /\ idp_calls' = Append(idp_calls, [token |-> vlocal.token, at |-> clock, worker |-> 1])
    /\ LET key == get_token_cache_key(vlocal.token)
           user == UserOf(Introspection(vlocal.token))
           failed == vlocal.failed \cup (IF vlocal.client /\ ~write_ok THEN {"write"} ELSE {})
       IN  IF resp = "ok"
           THEN /\ l1' = L1Put(l1, key, user, clock)
                /\ l2' = IF vlocal.client THEN L2Put(l2, L2Key(key), user, write_ok, clock)
                         ELSE l2
                /\ vlog' = Append(vlog, Verified(vlocal, "idp", resp, failed, user,
                                                 L1Put(l1, key, user, clock)))
           ELSE /\ vlog' = Append(vlog, Verified(vlocal, "idp", resp, vlocal.failed, <<>>, l1))
                /\ UNCHANGED <<l1, l2>>
    /\ vpc' = "idle"
    /\ vlocal' = NoVerify
    /\ UNCHANGED <<rlVars, dbVars, ccVars, l1Vars>>

(* the introspection requests that worker w has sent *)
SentBy(w) == {i \in 1..Len(idp_calls) : idp_calls[i].worker = w}

(* verify_token in another worker process, as this process meets it: the
   worker validates the token with the identity provider and writes the
   identity to the shared tier; at most limit such calls are followed *)
WorkerValidates(token, limit) ==
    /\ Cardinality(SentBy(2)) < limit
    /\ idp_calls' = Append(idp_calls, [token |-> token, at |-> clock, worker |-> 2])
    /\ l2' = L2Put(l2, L2Key(get_token_cache_key(token)), UserOf(Introspection(token)),
                   TRUE, clock)
    /\ UNCHANGED <<rlVars, dbVars, ccVars, l1, vpc, vlocal, vlog, l1Vars>>

(* Concurrent verify_token calls without REDIS_URL, seen from L1: each
   looks its token up and, on a miss, inserts it once the introspection
   has answered *)

L1Tokens == Tokens \cup {"t4"}
L1Sizes == {1, 2, 3}

(* the uses in order, with key the latest *)
MostRecent(order, key) == Append(SelectSeq(order, LAMBDA k : k # key), key)

InFlight == Cardinality({p \in L1Tokens \X (1..NVerifiers) : p[2] <= pending[p[1]]})

(* the tokens are interchangeable: they turn up in the order t1, t2, ... *)
L1Seen(t) == pending[t] > 0 \/ \E i \in 1..Len(used) : used[i] = get_token_cache_key(t)
L1Offered(t) ==
    \/ L1Seen(t)
    \/ t = "t1"
    \/ t = "t2" /\ L1Seen("t1")
    \/ t = "t3" /\ L1Seen("t2")
    \/ t = "t4" /\ L1Seen("t3")

(* a verify_token call looks its token up in L1; on a miss it goes on to
   the introspection request *)
L1Lookup(t) ==
    /\ L1Offered(t)
    /\ InFlight < NVerifiers
    /\ LET key == get_token_cache_key(t)
           got == L1Get(l1, key, clock)
       IN  /\ l1' = got.cache
           /\ used' = IF got.user # <<>> THEN MostRecent(used, key) ELSE used
           /\ pending' = IF got.user # <<>> THEN pending
                         ELSE [pending EXCEPT ![t] = @ + 1]
    /\ UNCHANGED <<rlVars, dbVars, ccVars, l2, idp_calls, vpc, vlocal, vlog, l1_max_size>>

(* the introspection of a call that missed has answered: an identity, which
   the call inserts in L1, or nothing *)
L1Insert(t, ok) ==
    /\ pending[t] > 0
    /\ pending' = [pending EXCEPT ![t] = @ - 1]
    /\ LET key == get_token_cache_key(t)
           put == L1Put(l1, key, UserOf(Introspection(t)), clock)
       IN  IF ok
           THEN /\ l1' = put
                /\ used' = MostRecent(used, key)
           ELSE UNCHANGED <<l1, used>>
    /\ UNCHANGED <<rlVars, dbVars, ccVars, l2, idp_calls, vpc, vlocal, vlog, l1_max_size>>

(* the module-level state of auth.py after import, with the maximum size
   of L1 that the environment configures *)
InitAuthSized(size) ==
    /\ l1 = <<>>
    /\ l2 = [k \in L2Keys |-> <<>>]
    /\ idp_calls = <<>>
    /\ vpc = "idle"
    /\ vlocal = NoVerify
    /\ vlog = <<>>
    /\ l1_max_size = size
    /\ pending = [t \in L1Tokens |-> 0]
    /\ used = <<>>

InitAuth == InitAuthSized(L1MaxSize)

----------------------------------------------------------------------------
(* The exchange rates: class CurrencyConverter of currency.py *)

(* Times are seconds; a header is absent (<<>>), a date, or a string that
   parsedate_to_datetime rejects, and changes with every publication *)
SCHEDULED_DELTA == 87300
MaxSleep == 3600

BuiltIn == [source |-> "builtin", published |-> 0]
Downloaded(published) == [source |-> "ecb", published |-> published]

HeadersOf(published) == {<<>>, <<"date", published>>, <<"junk", published>>}
Parseable(header) == header # <<>> /\ header[1] = "date"

next_scheduled_OneDay(header) == header[2] + 86400

(* _next_scheduled *)
next_scheduled(header) == header[2] + SCHEDULED_DELTA

(* the attributes that _schedule and _enter_backoff assign *)
Attributes ==
    [last_modified |-> cc_last_modified, next_check_at |-> next_check_at,
     backoff_minutes |-> backoff_minutes, backoffs |-> 0, reset |-> FALSE]

enter_backoff_Linear(s, now) ==
    [s EXCEPT !.next_check_at = {now + 60 * Min(s.backoff_minutes, BACKOFF_MAX_MINUTES)},
              !.backoff_minutes = Min(s.backoff_minutes + 1, BACKOFF_MAX_MINUTES),
              !.backoffs = @ + 1]

(* _enter_backoff *)
enter_backoff(s, now) ==
    [s EXCEPT !.next_check_at = {now + 60 * Min(s.backoff_minutes, BACKOFF_MAX_MINUTES)},
              !.backoff_minutes = Min(s.backoff_minutes * 2, BACKOFF_MAX_MINUTES),
              !.backoffs = @ + 1]

(* _schedule *)
schedule(s, header, now) ==
    IF Parseable(header)
    THEN [s EXCEPT !.last_modified = header,
                   !.next_check_at = {next_scheduled(header)},
                   !.backoff_minutes = BACKOFF_MIN_INIT,
                   !.reset = TRUE, !.backoffs = 0]
    ELSE enter_backoff([s EXCEPT !.last_modified = header], now)

(* the branch `if last_modified: ... else: ...` after a download *)
schedule_or_backoff(s, header, now) ==
    IF header # <<>> THEN schedule(s, header, now) ELSE enter_backoff(s, now)

(* _initial_load: dl is the outcome of _load_cc_from_url, g the header of
   its response *)
initial_load(s, now, dl, g) ==
    IF dl = "ok"
    THEN [converter |-> <<Downloaded(server)>>, s |-> schedule_or_backoff(s, g, now),
          kind |-> "loaded", installed |-> TRUE]
    ELSE [converter |-> <<BuiltIn>>, s |-> enter_backoff(s, now),
          kind |-> "builtin", installed |-> TRUE]

(* a download that replaced the table and then raised in _schedule, after
   the assignment to _last_modified and out of update() *)
schedule_raising(s, h, g) ==
    [converter |-> <<Downloaded(server)>>,
     s |-> [s EXCEPT !.last_modified = IF g # <<>> THEN g ELSE h],
     kind |-> "raised", installed |-> TRUE]

(* a download that notes the Last-Modified of the HEAD before it has the data *)
fetch_and_update_NotingFirst(s, h, now, dl, g, raises) ==
    IF dl = "ok"
    THEN [converter |-> <<Downloaded(server)>>,
          s |-> schedule_or_backoff(s, IF g # <<>> THEN g ELSE h, now),
          kind |-> "updated", installed |-> TRUE]
    ELSE [converter |-> converter, s |-> enter_backoff([s EXCEPT !.last_modified = h], now),
          kind |-> "download failed", installed |-> FALSE]

fetch_and_update_AssigningFirst(s, h, now, dl, g, raises) ==
    [converter |-> IF dl = "ok" THEN <<Downloaded(server)>> ELSE <<>>,
     s |-> IF dl = "ok" THEN schedule_or_backoff(s, IF g # <<>> THEN g ELSE h, now)
           ELSE enter_backoff(s, now),
     kind |-> "updated", installed |-> dl = "ok"]

(* _fetch_and_update *)
fetch_and_update(s, h, now, dl, g, raises) ==
    IF dl = "raised"
    THEN [converter |-> converter, s |-> s, kind |-> "raised", installed |-> FALSE]
    ELSE IF dl # "ok"
    THEN [converter |-> converter, s |-> enter_backoff(s, now),
          kind |-> "download failed", installed |-> FALSE]
    ELSE IF raises THEN schedule_raising(s, h, g)
    ELSE [converter |-> <<Downloaded(server)>>,
          s |-> schedule_or_backoff(s, IF g # <<>> THEN g ELSE h, now),
          kind |-> "updated", installed |-> TRUE]

NoNewData(s, now, kind) ==
    [converter |-> converter, s |-> enter_backoff(s, now), kind |-> kind,
     installed |-> FALSE]

(* update: head is the outcome of the HEAD request, h its Last-Modified, dl
   the outcome of _load_cc_from_url (which raises when the unlink in its
   finally block does), g the Last-Modified of the download *)
update(s, now, head, h, dl, g, raises) ==
    IF head = "exception" THEN NoNewData(s, now, "head failed")
    ELSE IF head = "status" THEN NoNewData(s, now, "head status")
    ELSE IF h = <<>> THEN NoNewData(s, now, "no header")
    ELSE IF h # s.last_modified THEN fetch_and_update(s, h, now, dl, g, raises)
    ELSE NoNewData(s, now, "unchanged")

Guarded_NotAtAll(o, now) == o

(* run: `try: self.update() except Exception: ... self._enter_backoff(...)` *)
Guarded(o, now) ==
    IF o.kind = "raised" THEN [o EXCEPT !.s = enter_backoff(o.s, now)] ELSE o

NoOutcome == <<>>

(* what the last _initial_load or update() did: whether it installed a new
   table, how often _enter_backoff was called, whether _schedule reset the
   backoff, which way it took *)
Done(o) ==
    << [installed |-> o.installed, backoffs |-> o.s.backoffs, reset |-> o.s.reset,
        kind |-> o.kind] >>

Applied(o) ==
    /\ converter' = o.converter
    /\ cc_last_modified' = o.s.last_modified
    /\ next_check_at' = o.s.next_check_at
    /\ backoff_minutes' = o.s.backoff_minutes
    /\ streak' = IF o.s.reset THEN o.s.backoffs ELSE streak + o.s.backoffs
    /\ cc_last' = Done(o)

ccFrame == <<ticks, confVars, windows, redisVars, next_id, callVars, admitted, dbVars, authVars>>

(* currency_converter._initial_load() at import *)
InitialLoad(dl, g) ==
    /\ cpc = "constructed"
    /\ cpc' = "loaded"
    /\ Applied(initial_load(Attributes, clock, dl, g))
    /\ cc_updated' = TRUE
    /\ UNCHANGED <<clock, ccFrame, server, checks, conv>>

(* currency_converter.start() *)
Start ==
    /\ cpc = "loaded"
    /\ cpc' = "running"
    /\ UNCHANGED <<clock, ccFrame, converter, cc_last_modified, next_check_at,
                   backoff_minutes, cc_updated, server, checks, streak, cc_last, conv>>

Due == next_check_at = {} \/ \A t \in next_check_at : clock >= t

(* run: the next check lies ahead, sleep until then or for an hour *)
CcSleep ==
    /\ cpc = "running"
    /\ ~Due
    /\ clock' = Min(ValueOf(next_check_at), clock + MaxSleep)
    /\ UNCHANGED <<ccFrame, converter, cc_last_modified, next_check_at, backoff_minutes,
                   cc_updated, cpc, server, checks, streak, cc_last, conv>>

(* run: the check is due; the requests of update() take `took` seconds *)
Check(limit, took, head, h, dl, g, raises) ==
    /\ cpc = "running"
    /\ Due
    /\ checks < limit
    /\ checks' = checks + 1
    /\ clock' = clock + took
    /\ Applied(Guarded(update(Attributes, clock', head, h, dl, g, raises), clock'))
    /\ UNCHANGED <<ccFrame, cc_updated, cpc, server, conv>>

(* the ECB publishes new rates, which the check that is due will meet *)
Publish_ECB(limit) ==
    /\ checks < limit
    /\ cpc = "running"
    /\ Due
    /\ server < clock
    /\ server' = clock
    /\ UNCHANGED <<clock, ccFrame, converter, cc_last_modified, next_check_at,
                   backoff_minutes, cc_updated, cpc, checks, streak, cc_last, conv>>

(* a request handler calls convert() on the instance *)
Convert ==
    /\ conv' = IF converter = <<>> THEN "AttributeError" ELSE "float"
    /\ UNCHANGED <<clock, ccFrame, converter, cc_last_modified, next_check_at,
                   backoff_minutes, cc_updated, cpc, server, checks, streak, cc_last>>

(* after CurrencyConverter.__init__ *)
InitCurrency ==
    /\ converter = <<>>
    /\ cc_last_modified = <<>>
    /\ next_check_at = {}
    /\ backoff_minutes = BACKOFF_MIN_INIT
    /\ cc_updated = FALSE
    /\ cpc = "constructed"
    /\ server = 0
    /\ checks = 0
    /\ streak = 0
    /\ cc_last = NoOutcome
    /\ conv = "none"


----------------------------------------------------------------------------
InitRateLimiter(b, cpm) ==
    /\ clock = 0
    /\ ticks = 0
    /\ backend = b
    /\ credits_per_minute = cpm
    /\ windows = [k \in Keys |-> <<>>]
    /\ zsets = [k \in Keys |-> {}]
    /\ expire_at = [k \in Keys |-> 0]
    /\ refwin = [k \in Keys |-> <<>>]
    /\ redis_failed = FALSE
    /\ next_id = 1
    /\ pc = [r \in Requests |-> "idle"]
    /\ req = [r \in Requests |-> IdleReq]
    /\ res = [r \in Requests |-> NoRes]
    /\ pen = [r \in Requests |-> NoRes]
    /\ response = [r \in Requests |-> NoResponse]
    /\ admitted = EmptyBag

InitLimiter(b, cpm) ==
    /\ InitRateLimiter(b, cpm)
    /\ InitDatabase
    /\ InitAuth
    /\ InitCurrency

(* Concurrent requests through the middleware, each thread serving one *)
Init == InitLimiter("memory", CreditsPerMinute)

Next ==
    \/ \E r \in Requests, q \in ConcRequests : Begin(r, q)
    \/ \E r \in Requests : MemCall(r)
    \/ \E r \in Requests, s \in {200, 401} : CallNext(r, s)
    \/ \E d \in ConcJumps : Tick(d, MaxTicks)

Spec == Init /\ [][Next]_vars

(* Bursts of concurrent cost-1 calls *)
NextBurst ==
    \/ \E r \in Requests, q \in BurstRequests : Begin(r, q)
    \/ \E r \in Requests : MemCall(r)
    \/ \E r \in Requests : CallNext(r, 200)
    \/ \E d \in ConcJumps : Tick(d, BurstMaxTicks)

SpecBurst == Init /\ [][NextBurst]_vars

(* One client sending one request after the other, configured as the tests
   do; the endpoints it asks for need no token and answer 200 *)
InitSeq == InitLimiter("memory", TestCreditsPerMinute)

NextSeq ==
    \/ \E q \in SeqRequests : Begin(1, q)
    \/ MemCall(1)
    \/ CallNext(1, 200)
    \/ \E d \in SeqJumps : Tick(d, SeqMaxTicks)
    \/ NextRequest(1)

SpecSeq == InitSeq /\ [][NextSeq]_vars

(* The test client on paths of every cost, with and without a valid token *)
NextCost ==
    \/ \E q \in CostRequests : Begin(1, q)
    \/ MemCall(1)
    \/ \E s \in {200, 401} : CallNext(1, s)
    \/ NextRequest(1)

SpecCost == InitSeq /\ [][NextCost]_vars

(* One client with a pool of its own or none, one request after the other *)
NextPool ==
    \/ \E q \in PoolRequests : Begin(1, q)
    \/ MemCall(1)
    \/ CallNext(1, 200)
    \/ NextRequest(1)

SpecPool == Init /\ [][NextPool]_vars

(* One client after the other over the Redis limiter, Redis failing at will *)
InitRedis == InitLimiter("redis", CreditsPerMinute)

NextRedis ==
    \/ \E q \in RedisRequests : Begin(1, q)
    \/ RedisCall(1)
    \/ \E x \in BOOLEAN : RedisFail(1, x)
    \/ Fallback(1)
    \/ CallNext(1, 200)
    \/ \E d \in ConcJumps : Tick(d, MaxTicks)
    \/ NextRequest(1)

SpecRedis == InitRedis /\ [][NextRedis]_vars

(* One client over the Redis limiter, on paths of every cost, with and
   without a valid token, Redis answering every call *)
InitPenalty == InitLimiter("redis", TestCreditsPerMinute)

NextPenalty ==
    \/ \E q \in PenaltyRequests : Begin(1, q)
    \/ RedisCall(1)
    \/ \E status_code \in {200, 401} : CallNext(1, status_code)
    \/ \E d \in SeqJumps : Tick(d, SeqMaxTicks)
    \/ NextRequest(1)

SpecPenalty == InitPenalty /\ [][NextPenalty]_vars

(* Requests of two identities, one after the other, over either limiter,
   Redis failing at will *)
InitKeys == \E b \in {"memory", "redis"} : InitLimiter(b, CreditsPerMinute)

NextKeys ==
    \/ \E q \in ConcRequests : Begin(1, q)
    \/ MemCall(1)
    \/ RedisCall(1)
    \/ \E x \in BOOLEAN : RedisFail(1, x)
    \/ Fallback(1)
    \/ CallNext(1, 200)
    \/ \E d \in {WindowSeconds} : Tick(d, BurstMaxTicks)
    \/ NextRequest(1)

SpecKeys == InitKeys /\ [][NextKeys]_vars

(* The update thread, the upstream and the exit handler *)
NextDB ==
    \/ \E force \in {FALSE} : Update(force, MaxUpdates)   \* run never passes force
    \/ \E ok \in BOOLEAN : CopyFile(ok, next_file)
    \/ Acquire
    \/ AppendTmpfile
    \/ \E ok \in BOOLEAN : Augment(ok)
    \/ Publish
    \/ CleanupOld
    \/ \E d \in {UpdateInterval} : Sleep(d)
    \/ UpstreamChange
    \/ ExitCleanup

SpecDB == Init /\ [][NextDB]_vars

(* The run loop for ever, with copy and augmentation never failing; the
   scheduler lets the update thread take its next step *)
Unbounded == MaxUpdates + 1

UpdaterStep ==
    \/ \E force \in {FALSE} : Update(force, Unbounded)
    \/ \E ok \in {TRUE} : CopyFile(ok, FirstFree)
    \/ Acquire
    \/ AppendTmpfile
    \/ \E ok \in {TRUE} : Augment(ok)
    \/ Publish
    \/ CleanupOld
    \/ \E d \in {0} : Sleep(d)   \* this specification does not follow the clock

NextDBLive ==
    \/ UpdaterStep
    \/ UpstreamChange

SpecDBLive == Init /\ [][NextDBLive]_vars /\ WF_vars(UpdaterStep)

(* verify_token with REDIS_URL set, Redis failing at any step *)
AuthJumps == {1, L1_TTL}
TierJumps == {L1_TTL + 1}

NextAuth ==
    \/ \E t \in {"t1", "t2"}, client_ok, read_ok \in BOOLEAN :
           VerifyBegin(t, MaxVerifies, TRUE, client_ok, read_ok)
    \/ \E resp \in {"ok", "nosub", "error"}, write_ok \in BOOLEAN : VerifyIdP(resp, write_ok)
    \/ \E d \in TierJumps : Tick(d, TierMaxTicks)

SpecAuth == Init /\ [][NextAuth]_vars

(* verify_token without REDIS_URL: the in-memory tier alone *)
NextCache ==
    \/ \E t \in Tokens : VerifyBegin(t, CacheVerifies, FALSE, TRUE, TRUE)
    \/ \E resp \in {"ok", "error"} : VerifyIdP(resp, TRUE)
    \/ \E d \in AuthJumps : Tick(d, AuthMaxTicks)

SpecCache == Init /\ [][NextCache]_vars

(* Concurrent verify_token calls, whatever maximum size L1 is given *)
InitL1 ==
    /\ InitRateLimiter("memory", CreditsPerMinute)
    /\ InitDatabase
    /\ InitCurrency
    /\ \E size \in L1Sizes : InitAuthSized(size)

NextL1 ==
    \/ \E t \in L1Tokens : L1Lookup(t)
    \/ \E t \in L1Tokens, ok \in BOOLEAN : L1Insert(t, ok)
    \/ \E d \in TierJumps : Tick(d, TierMaxTicks)

SpecL1 == InitL1 /\ [][NextL1]_vars

(* verify_token with REDIS_URL set and Redis in reach, the identity provider
   accepting every token *)
NextTier ==
    \/ \E t \in Tokens : VerifyBegin(t, TierVerifies, TRUE, TRUE, TRUE)
    \/ \E resp \in {"ok"} : VerifyIdP(resp, TRUE)
    \/ \E d \in {L1_TTL, L1_TTL + 1} : Tick(d, AuthMaxTicks)

SpecTier == Init /\ [][NextTier]_vars

(* verify_token in a worker that shares Redis with other workers, over the
   life of an L2 entry *)
StaleJumps == {L1_TTL, L2_TTL - 1}

NextStale ==
    \/ \E t \in {"t1"} : WorkerValidates(t, WorkerVerifies)
    \/ \E t \in {"t1", "t2"} : VerifyBegin(t, MaxVerifies, TRUE, TRUE, TRUE)
    \/ \E resp \in {"ok"}, write_ok \in BOOLEAN : VerifyIdP(resp, write_ok)
    \/ \E d \in StaleJumps : Tick(d, AuthMaxTicks)

SpecStale == Init /\ [][NextStale]_vars

(* verify_token with REDIS_URL set, the identity provider rejecting at will
   and Redis reads failing at will *)
NextReject ==
    \/ \E t \in {"t1", "t2"}, read_ok \in BOOLEAN :
           VerifyBegin(t, RejectVerifies, TRUE, TRUE, read_ok)
    \/ \E resp \in {"ok", "nosub", "rule", "error"} : VerifyIdP(resp, TRUE)
    \/ \E d \in TierJumps : Tick(d, TierMaxTicks)

SpecReject == Init /\ [][NextReject]_vars

(* The exchange rates: import of currency.py, then the update thread, the
   ECB and the request handlers *)
NextCurrency ==
    \/ \E dl \in {"ok", "failed"}, g \in HeadersOf(server) : InitialLoad(dl, g)
    \/ Start
    \/ CcSleep
    \/ \E head \in {"exception", "status"} :
            Check(RateChecks, 0, head, <<>>, "failed", <<>>, FALSE)
    \/ \E h \in HeadersOf(server), dl \in {"failed", "raised"} :
            Check(RateChecks, 0, "ok", h, dl, <<>>, FALSE)
    \/ \E h, g \in HeadersOf(server), raises \in BOOLEAN :
            Check(RateChecks, 0, "ok", h, "ok", g, raises)
    \/ Publish_ECB(RateChecks)
    \/ Convert

SpecCurrency == Init /\ [][NextCurrency]_vars

(* The exchange rates over a long run of checks whose responses carry the
   date of the publication *)
NextBackoff ==
    \/ \E dl \in {"ok", "failed"} : InitialLoad(dl, <<"date", server>>)
    \/ Start
    \/ CcSleep
    \/ Check(MaxChecks, 0, "exception", <<>>, "failed", <<>>, FALSE)
    \/ \E dl \in {"ok", "failed"} :
            Check(MaxChecks, 0, "ok", <<"date", server>>, dl, <<"date", server>>, FALSE)
    \/ Publish_ECB(MaxChecks)

SpecBackoff == Init /\ [][NextBackoff]_vars

(* The update thread and the request handlers that ask for sessions *)
NextRead ==
    \/ \E force \in {FALSE} : Update(force, ReadUpdates)
    \/ \E ok \in {TRUE} : CopyFile(ok, next_file)
    \/ Acquire
    \/ AppendTmpfile
    \/ \E ok \in {TRUE} : Augment(ok)
    \/ Publish
    \/ CleanupOld
    \/ \E d \in {UpdateInterval} : Sleep(d)
    \/ UpstreamChange
    \/ ExitCleanup
    \/ \E r \in Readers : SessionCall(r)
    \/ \E r \in Readers : SessionWait(r)
    \/ \E r \in Readers : SessionReturn(r)

SpecRead == Init /\ [][NextRead]_vars

----------------
(* Claims on the rate limiter *)

Outcomes == {res[r] : r \in Requests} \cup {pen[r] : r \in Requests}

(* the credits admitted before call o for its key and still in its window *)
UnexpiredBefore(o) ==
    CostOf(o.before, {e \in BagToSet(o.before) : e.key = o.key /\ e.ts > o.now - WindowSeconds})

C1_Calls(k) == {r \in Requests : res[r].done /\ res[r].key = k}

(* calls on key k, all of cost 1 and limit L, within one window, and nothing else *)
C1_Scenario(k, L) ==
    /\ C1_Calls(k) # {}
    /\ \A r \in C1_Calls(k) : res[r].limit = L /\ res[r].cost = 1
    /\ \A r \in Requests : ~(pen[r].done /\ pen[r].key = k)
    /\ \A r1, r2 \in C1_Calls(k) : res[r1].now - res[r2].now < WindowSeconds

(* C1: of N concurrent cost-1 calls on one key with one limit L, made within
   one window from an empty window, exactly min(N, L) are allowed, whatever
   the interleaving of the threads. *)
C1_AtomicAdmission ==
    \A k \in Keys : \A L \in {res[r].limit : r \in Requests} :
        C1_Scenario(k, L) =>
            Cardinality({r \in C1_Calls(k) : res[r].allowed})
                = Min(Cardinality(C1_Calls(k)), L)

C1_Witness ==
    \E k \in Keys : \E L \in {res[r].limit : r \in Requests} :
        /\ C1_Scenario(k, L)
        /\ Cardinality(C1_Calls(k)) > L
        /\ L >= 2
        /\ Cardinality({r \in C1_Calls(k) : res[r].allowed}) = L
        /\ \E r \in C1_Calls(k) : ~res[r].allowed

(* all that was admitted before call o are cost-1 calls at t=0 on the test
   limiter *)
C2_OnlyOnesAtZero(o) ==
    \A e \in BagToSet(o.before) :
        e.ts = 0 /\ e.path = HealthcheckPath /\ e.limit = TestCreditsPerMinute

(* C2: an admitted call returns limit - (sum of unexpired costs) - cost and a
   rejected call max(0, limit - sum of unexpired costs); with limit 10 and a
   60 second window, cost-1 calls at t=0 return 9, 8, ..., 0, the 11th is
   rejected with 0 remaining, and a call at t=61 returns (True, 9). *)
C2_RemainingCredits ==
    /\ \A o \in Outcomes : o.done =>
         /\ o.allowed => o.remaining = o.limit - UnexpiredBefore(o) - o.cost
         /\ ~o.allowed => o.remaining = Max(0, o.limit - UnexpiredBefore(o))
    /\ LET o == res[1]
           n == CostOf(o.before, {e \in BagToSet(o.before) : TRUE})
       IN  (o.done /\ o.cost = 1 /\ o.limit = 10 /\ C2_OnlyOnesAtZero(o)) =>
             /\ (o.now = 0 /\ n < 10) => (o.allowed /\ o.remaining = 9 - n)
             /\ (o.now = 0 /\ n = 10) => (~o.allowed /\ o.remaining = 0)
             /\ (o.now = 61 /\ n = 10) => (o.allowed /\ o.remaining = 9)

C2_Witness ==
    LET o == res[1]
    IN  /\ o.done /\ o.cost = 1 /\ o.limit = 10 /\ C2_OnlyOnesAtZero(o)
        /\ CostOf(o.before, {e \in BagToSet(o.before) : TRUE}) = 10
        /\ o.now = 61 /\ o.dropped = 10
        /\ o.allowed /\ o.remaining = 9

(* the entries recorded at t0 have consumed all credits of the key of call o *)
C3_FullAt(o, t0) ==
    CostOf(o.before, {e \in BagToSet(o.before) : e.key = o.key /\ e.ts = t0}) >= o.limit

C3_Times(o) == {e.ts : e \in BagToSet(o.before)}

(* C3 as claimed: once the entries recorded at t0 have consumed all credits,
   a cost-1 call at any t <= t0 + window - 1 is rejected and a cost-1 call at
   any t >= t0 + window + 1 is allowed. *)
C3_AsClaimed ==
    LET o == res[1]
    IN  (o.done /\ o.cost = 1) =>
          \A t0 \in C3_Times(o) : C3_FullAt(o, t0) =>
            /\ o.now <= t0 + WindowSeconds - 1 => ~o.allowed
            /\ o.now >= t0 + WindowSeconds + 1 => o.allowed

(* C3: once the entries recorded at t0 have consumed all credits, a cost-1
   call at any t <= t0 + window - 1 is rejected, and a cost-1 call at any
   t >= t0 + window + 1 is allowed provided nothing has been admitted for the
   key after t0. *)
C3_SlidingWindowExpiry ==
    LET o == res[1]
    IN  (o.done /\ o.cost = 1) =>
          \A t0 \in C3_Times(o) : C3_FullAt(o, t0) =>
            /\ o.now <= t0 + WindowSeconds - 1 => ~o.allowed
            /\ ( /\ o.now >= t0 + WindowSeconds + 1
                 /\ CostOf(o.before, {e \in BagToSet(o.before) : e.key = o.key /\ e.ts > t0}) = 0 )
               => o.allowed

C3_Witness ==
    LET o == res[1]
    IN  /\ o.done /\ o.cost = 1 /\ o.allowed
        /\ \E t0 \in C3_Times(o) :
             /\ C3_FullAt(o, t0)
             /\ o.now = t0 + WindowSeconds + 1
             /\ CostOf(o.before, {e \in BagToSet(o.before) : e.key = o.key /\ e.ts > t0}) = 0
        /\ o.dropped > 0

(* C4: whenever a call with limit L is admitted and recorded with timestamp
   ts, the costs of all entries admitted so far for that key with limit L
   and a timestamp in (ts - window, ts], the new one included, sum to at
   most L. *)
C4_WindowSum ==
    \A o \in Outcomes : (o.done /\ o.allowed) =>
        o.cost + CostOf(o.before, {e \in BagToSet(o.before) :
                     /\ e.key = o.key /\ e.limit = o.limit
                     /\ e.ts > o.now - WindowSeconds /\ e.ts <= o.now})
          <= o.limit

(* C7: the penalty call made after a 401 response is always admitted. *)
C7_PenaltyAdmitted ==
    \A r \in Requests : pen[r].done => pen[r].allowed

(* the credits admitted before call o for its sender, in its window, on the
   given paths *)
C8_Paths == {HealthcheckPath, ServersPath}

C8_SpentBy(o, paths) ==
    CostOf(o.before, {e \in BagToSet(o.before) :
             e.who = o.who /\ e.ts > o.now - WindowSeconds /\ e.path \in paths})

(* C8: all endpoints draw from one pool per identity: a first call of a
   request is allowed exactly when the credits admitted in its window for
   the same identity, on whatever path, leave room for its cost; so with
   limit 10 a client admitted for 1+3+3+3 credits on different paths is
   rejected on its next cost-1 request. *)
C8_OnePoolPerIdentity ==
    LET o == res[1]
    IN  o.done => (o.allowed <=> C8_SpentBy(o, C8_Paths) + o.cost <= o.limit)

C8_Witness ==
    LET o == res[1]
    IN  /\ o.done /\ o.cost = 1 /\ o.limit = 10 /\ ~o.allowed
        /\ C8_SpentBy(o, {HealthcheckPath}) = 1
        /\ C8_SpentBy(o, {ServersPath}) = 9
        /\ C8_SpentBy(o, C8_Paths) = 10

(* C9: the limit applied to the request of an authenticated user whose
   identity record carries api_credits_per_minute = c is c, for every c;
   only users without a value, and anonymous clients, get the default. *)
C9_UserPoolApplied ==
    \A r \in Requests : res[r].done =>
        LET u == res[r].who.user
        IN  IF u # <<>> /\ u[1].api_credits_per_minute # {}
            THEN res[r].limit = ValueOf(u[1].api_credits_per_minute)
            ELSE res[r].limit = credits_per_minute

(* the credits the fallback limiter admitted before call o for its key, in
   its window *)
C5_SpentInFallback(o) ==
    CostOf(o.before, {e \in BagToSet(o.before) :
             e.key = o.key /\ e.via = "fallback" /\ e.ts > o.now - WindowSeconds})

(* C5: when the Redis script call throws, is_allowed returns the decision of
   the in-memory fallback limiter for the same key, limit and cost, and that
   limiter still counts what it admitted on earlier failed Redis calls. *)
C5_FallbackDecision ==
    \A o \in Outcomes : (o.done /\ o.via = "fallback") =>
        /\ o.allowed <=> C5_SpentInFallback(o) + o.cost <= o.limit
        /\ o.allowed => o.remaining = o.limit - C5_SpentInFallback(o) - o.cost
        /\ ~o.allowed => o.remaining = Max(0, o.limit - C5_SpentInFallback(o))

C5_Witness ==
    \E o \in Outcomes :
        /\ o.done /\ o.via = "fallback" /\ ~o.allowed
        /\ C5_SpentInFallback(o) = o.limit
        /\ redis_failed

(* C6: as long as Redis never fails and every call carries a request id of
   its own, the Redis script and InMemoryRateLimiter return the same
   (allowed, remaining) for every call. *)
C6_BackendEquivalence ==
    ~redis_failed =>
        \A r \in Requests :
            LET o == res[r]
            IN  ( /\ o.done /\ o.via = "redis"
                  /\ \A e \in BagToSet(o.before) : e.limit = credits_per_minute )
                => (o.allowed = o.ref_allowed /\ o.remaining = o.ref_remaining)

----------------
(* Claims on the dataset manager *)

(* calls i, i+1, i+2 are unforced update() calls that end without raising,
   each seeing one upstream hash throughout, the hashes being h1, h1, h2 with
   h1 the db_hash the first of them finds, and the exit handler has not run *)
C10_Scenario(i, h1, h2) ==
    /\ i + 2 <= Len(calls)
    /\ h1 # h2
    /\ calls[i].hash_before = h1
    /\ calls[i].seen = h1 /\ calls[i + 1].seen = h1 /\ calls[i + 2].seen = h2
    /\ \A j \in i..(i + 2) :
          /\ ~calls[j].force
          /\ ~calls[j].raised
          /\ calls[j].seen_at_publish = calls[j].seen
          /\ ~calls[j].exited

C10_OnlyTheThirdRefreshes(i, h2) ==
    /\ ~calls[i].refreshed
    /\ ~calls[i + 1].refreshed
    /\ calls[i + 2].refreshed
    /\ calls[i + 1].hash_before = calls[i].hash_before
    /\ calls[i + 1].hash_after = calls[i].hash_after
    /\ calls[i + 2].hash_after = h2

(* C10 as stated: three consecutive update() calls seeing the hashes
   h1, h1, h2: only the third refreshes, db_hash is the same around the first
   two calls and h2 after the third. *)
C10_AsClaimed ==
    \A i \in 1..MaxUpdates, h1, h2 \in 1..MaxVersions :
        C10_Scenario(i, h1, h2) => C10_OnlyTheThirdRefreshes(i, h2)

(* C10, amended: the same for a Database that is ready (has published a
   snapshot of h1) when the first of the three calls starts. *)
C10_OneRefreshWhenReady ==
    \A i \in 1..MaxUpdates, h1, h2 \in 1..MaxVersions :
        (C10_Scenario(i, h1, h2) /\ calls[i].ready_before)
            => C10_OnlyTheThirdRefreshes(i, h2)

C10_Witness ==
    \E i \in 1..MaxUpdates, h1, h2 \in 1..MaxVersions :
        /\ C10_Scenario(i, h1, h2)
        /\ calls[i].ready_before
        /\ calls[i + 2].refreshed
        /\ db_hash = h2 /\ engine # <<>> /\ content[engine[1]] = h2

Producing == upc \in {"copy", "augment"}

C11_DuringProduction(r) == rses[r].returned /\ rses[r].returned_during \in {"copy", "augment"}

(* C11, as stated: after the first publish no sessionmaker call made during
   copy or augmentation waits for the event, and the updater holds the lock
   only while appending the file name and while swapping *)
C11_AsClaimed ==
    /\ \A r \in Readers :
          (last_updated # {} /\ Producing /\ rpc[r] = "wait") => MayPass(updated)
    /\ Held(lock, "updater") => upc \in {"append", "publish"}

(* C11: after the first publish and before the exit handler has run, a
   sessionmaker call made while update() copies or augments passes the
   event and finds the lock free of the updater; a session returned during
   copy or augmentation is bound to the engine of the last publish, never to
   None or to the file in preparation; the updater holds the lock only
   while appending the file name, while swapping and during its cleanup *)
C11_NoBlockReads ==
    /\ Producing => ~Held(lock, "updater")
    /\ Held(lock, "updater") => upc \in {"append", "publish", "cleanup"}
    /\ \A r \in Readers :
          (last_updated # {} /\ ~exited /\ Producing /\ rpc[r] = "wait")
              => MayPass(updated)
    /\ \A r \in Readers :
          C11_DuringProduction(r) =>
              /\ rses[r].engine # <<>>
              /\ rses[r].engine = rses[r].published
              /\ rses[r].engine # <<rses[r].preparing>>

C11_Witness ==
    \E r \in Readers :
        /\ C11_DuringProduction(r)
        /\ rses[r].preparing # NoFile
        /\ rses[r].engine # <<>>
        /\ ~exited

Tracked == {tmpfiles[i] : i \in 1..Len(tmpfiles)}

C12_Returned == upc = "sleep" /\ calls # <<>> /\ calls[Len(calls)].refreshed

C12_AfterPublish ==
    /\ upc = "cleanup"
    /\ engine = <<ulocal.tmpfile>>
    /\ db_hash >= ulocal.seen
    /\ last_updated # {}
    /\ updated \/ exited

C12_UpdaterUnlinks == resident \ resident' # {} /\ exited' = exited

(* C12: when a successful update() has returned, at most 2 snapshot files
   are tracked in tmpfiles and on disk; and the update thread unlinks files
   only in the cleanup that follows its publish, with engine, db_hash and
   last_updated swapped and the event set *)
C12_Retention ==
    /\ [](C12_Returned => Cardinality(Tracked \cap resident) <= 2 /\ Len(tmpfiles) <= 2)
    /\ [][C12_UpdaterUnlinks => C12_AfterPublish]_vars

C12_Witness ==
    /\ C12_Returned
    /\ ~exited
    /\ Cardinality(Tracked \cap resident) = 2
    /\ Cardinality(resident) < next_file - 1   \* a file has been unlinked

C13_Publishes == {i \in 1..Len(calls) : calls[i].refreshed}

C13_LastPublish == calls[CHOOSE i \in C13_Publishes : \A j \in C13_Publishes : j <= i]

(* C13: once an update() that published has run its cleanup, and until the
   next publish, the file of the engine that was published just before it
   is still on disk, whatever update() attempts failed in between (the exit
   handler has not run) *)
C13_HandOffSafety ==
    (C13_Publishes # {} /\ upc \notin {"cleanup"} /\ ~exited) =>
        \/ C13_LastPublish.engine_before = <<>>
        \/ C13_LastPublish.engine_before[1] \in resident

C14_Unchanged(c) ==
    /\ c.engine_after = c.engine_before
    /\ c.hash_after = c.hash_before
    /\ c.last_updated_after = c.last_updated_before
    /\ (c.exited = c.exited_before) => (c.ready_after = c.ready_before)

C14_Attempt(c) == c.refreshed \/ c.raised

(* C14: an update() call in which the copy or the augmentation raised
   leaves engine, db_hash and last_updated as they were, and the event as
   it was unless the exit handler cleared it meanwhile; run goes on to its
   sleep, and the update() call after it attempts the refresh again *)
C14_FailureKeepsSnapshot ==
    /\ \A i \in 1..Len(calls) :
          calls[i].raised =>
              /\ C14_Unchanged(calls[i])
              /\ i < Len(calls) => C14_Attempt(calls[i + 1])
    /\ (calls # <<>> /\ calls[Len(calls)].raised /\ upc \in {"sleep", "idle"}) =>
          /\ engine = calls[Len(calls)].engine_before
          /\ db_hash = calls[Len(calls)].hash_before
          /\ last_updated = calls[Len(calls)].last_updated_before
          /\ NeedsUpdate(ready, db_hash, upstream, FALSE)

C14_Witness ==
    \E i \in 1..Len(calls) :
        /\ calls[i].raised
        /\ calls[i].ready_before
        /\ calls[i].tmpfile # NoFile        \* the augmentation raised
        /\ i < Len(calls)
        /\ calls[i + 1].refreshed
        /\ ~calls[i + 1].exited

C15_PastTheGate(r) == rpc[r] \in {"lock", "done"}

(* C15: no session is bound to an absent engine, and a sessionmaker call
   made before the first publish gets past the wait only after that
   publish, whatever the interleaving of readers and updater *)
C15_FirstLoadGate ==
    /\ \A r \in Readers : rses[r].returned => rses[r].engine # <<>>
    /\ \A r \in Readers : C15_PastTheGate(r) => (last_updated # {} /\ engine # <<>>)
    /\ last_updated = {} => ~MayPass(updated)

C15_Witness ==
    \E r \in Readers :
        /\ rses[r].returned
        /\ ~rses[r].called_loaded
        /\ rses[r].engine # <<>>
        /\ \E x \in Readers : rpc[x] = "wait" /\ ~rses[x].called_loaded

(* C16: once a successful update() has set the event, ready is never false
   again, whatever update, cleanup and sessionmaker calls follow *)
C16_ReadyStaysTrue == last_updated # {} => ready

C17_Consistent ==
    /\ ready
    /\ db_hash = upstream
    /\ engine # <<>>
    /\ content[engine[1]] = upstream

(* C17: when copy and augmentation do not fail and the upstream has stopped
   changing, the run loop reaches, and stays in, a state where the published
   engine holds the upstream's latest content and db_hash is its hash *)
C17_EventuallyConsistent == <>[]C17_Consistent

----------------
(* Claims on the token cache *)

C18_Key(c) == get_token_cache_key(c.token)

(* what the call returns when no shared tier is configured: the L1 entry if
   there is a live one, else what the introspection gives *)
C18_LocalOnly(c) ==
    IF L1Get(c.l1_before, C18_Key(c), c.began).user # <<>>
    THEN L1Get(c.l1_before, C18_Key(c), c.began).user
    ELSE IF c.resp = "ok" THEN UserOf(Introspection(c.token)) ELSE <<>>

C18_WroteL2(c) == c.via = "idp" /\ c.resp = "ok" /\ c.failed = {}

(* C18: a verify_token call in which the Redis client could not be made, or
   the L2 read or the L2 write raised, returns what the call returns with
   no shared tier configured, and never an L2 answer; and a successful
   introspection leaves the identity in L1 whether or not the L2 write
   failed *)
C18_TierFallback ==
    \A i \in 1..Len(vlog) :
        /\ vlog[i].failed # {} =>
              /\ vlog[i].via # "l2"
              /\ vlog[i].result = C18_LocalOnly(vlog[i])
        /\ vlog[i].resp = "ok" =>
              /\ InCache(vlog[i].l1_after, C18_Key(vlog[i]))
              /\ EntryOf(vlog[i].l1_after, C18_Key(vlog[i])).user = vlog[i].result
              /\ EntryOf(vlog[i].l1_after, C18_Key(vlog[i])).cached_time = vlog[i].ended

C18_Witness ==
    /\ \E i, j \in 1..Len(vlog) :
          /\ i < j
          /\ vlog[i].token = vlog[j].token
          /\ C18_WroteL2(vlog[i])
          /\ "read" \in vlog[j].failed
          /\ vlog[j].began > vlog[i].ended + L1_TTL
          /\ vlog[j].result # <<>>
    /\ \E i \in 1..Len(vlog) : "write" \in vlog[i].failed /\ vlog[i].result # <<>>

C19_Validated(c) == c.via = "idp" /\ c.resp = "ok"

C19_WithinTTL(c, d) == c.token = d.token /\ d.began <= c.ended + L1_TTL

(* the other tokens that calls i+1 .. j-1 found or put in L1 *)
C19_Others(i, j) ==
    {vlog[k].token : k \in {x \in (i + 1)..(j - 1) : vlog[x].result # <<>>}} \ {vlog[i].token}

C19_FromCache(c, d) == d.result = c.result /\ d.via = "l1" /\ d.resp = "none"

(* C19, as stated: every call with a validated token made within the L1 TTL
   of the validation returns the same identity without an introspection
   request *)
C19_AsClaimed ==
    \A i, j \in 1..Len(vlog) :
        (i < j /\ C19_Validated(vlog[i]) /\ C19_WithinTTL(vlog[i], vlog[j]))
            => C19_FromCache(vlog[i], vlog[j])

(* C19: a call with a validated token made within the L1 TTL of the
   validation returns the same identity without an introspection request,
   provided fewer than L1_MAX_SIZE other tokens were served in between *)
C19_CachedUnlessEvicted ==
    \A i, j \in 1..Len(vlog) :
        (/\ i < j
         /\ C19_Validated(vlog[i])
         /\ C19_WithinTTL(vlog[i], vlog[j])
         /\ Cardinality(C19_Others(i, j)) < L1MaxSize)
            => C19_FromCache(vlog[i], vlog[j])

C19_Witness ==
    \E i, j \in 1..Len(vlog) :
        /\ i + 1 < j
        /\ C19_Validated(vlog[i])
        /\ C19_WithinTTL(vlog[i], vlog[j])
        /\ vlog[j].began = vlog[i].ended + L1_TTL
        /\ Cardinality(C19_Others(i, j)) = L1MaxSize - 1
        /\ C19_FromCache(vlog[i], vlog[j])

C20_Age(cache, key, now) == now - EntryOf(cache, key).cached_time

C20_Old(cache, key, now) == InCache(cache, key) /\ C20_Age(cache, key, now) > L1_TTL

C20_Entries(cache) == {cache[i] : i \in 1..Len(cache)}

(* C20: an identity returned from L1 comes from an entry inserted at most
   L1_TTL seconds before the lookup; a lookup that finds an older entry
   reports a miss and removes the entry; and after every insert no entry
   of L1 is older than L1_TTL *)
C20_TTLInvariant ==
    /\ \A i \in 1..Len(vlog) :
          LET c == vlog[i]
          IN  /\ c.via = "l1" =>
                    /\ InCache(c.l1_before, C18_Key(c))
                    /\ C20_Age(c.l1_before, C18_Key(c), c.began) <= L1_TTL
                    /\ c.result = EntryOf(c.l1_before, C18_Key(c)).user
              /\ C20_Old(c.l1_before, C18_Key(c), c.began) => c.via # "l1"
              /\ c.resp = "ok" =>
                    \A e \in C20_Entries(c.l1_after) : c.ended - e.cached_time <= L1_TTL
    /\ (vpc = "idp" /\ C20_Old(vlocal.l1_before, C18_Key(vlocal), vlocal.began)) =>
          ~InCache(l1, C18_Key(vlocal))

C20_Witness ==
    /\ \E i \in 1..Len(vlog) :
          /\ vlog[i].via = "l1"
          /\ C20_Age(vlog[i].l1_before, C18_Key(vlog[i]), vlog[i].began) = L1_TTL
    /\ \E i \in 1..Len(vlog) :
          /\ C20_Old(vlog[i].l1_before, C18_Key(vlog[i]), vlog[i].began)
          /\ vlog[i].resp = "ok"
          /\ \E e \in C20_Entries(vlog[i].l1_before) :
                e.key # C18_Key(vlog[i]) /\ vlog[i].ended - e.cached_time > L1_TTL



L1KeysOf(cache) == {cache[i].key : i \in 1..Len(cache)}
L1Distinct == \A i, j \in 1..Len(l1) : l1[i].key = l1[j].key => i = j

(* C21: whatever the concurrent calls look up and insert, L1 holds at most
   the configured maximum number of entries (a maximum of 1 or more) *)
C21_SizeBound == Len(l1) <= l1_max_size /\ L1Distinct

(* L1 is full and more keys were inserted than it holds, none of them expired *)
C21_Witness ==
    /\ clock = 0
    /\ l1_max_size >= 2
    /\ Len(l1) = l1_max_size
    /\ Len(used) > l1_max_size

(* the step is an insert: a call that missed leaves _cache_token_user_l1 *)
C22_Inserting == \E t \in L1Tokens : pending'[t] < pending[t]
C22_Live == {l1[i].key : i \in {j \in 1..Len(l1) : ~Expired(clock, l1[j].cached_time)}}
C22_Evicted == C22_Live \ L1KeysOf(l1')
C22_Kept == C22_Live \cap L1KeysOf(l1')
C22_Rank(key) == CHOOSE i \in 1..Len(used) : used[i] = key

(* C22: an insert evicts an entry only when L1 is full, and every entry it
   evicts was used (looked up with success, or inserted, overwriting
   included) less recently than every entry it keeps *)
C22_EvictsLeastRecentlyUsed ==
    [][C22_Inserting =>
        /\ C22_Evicted # {} => Cardinality(C22_Live) >= l1_max_size
        /\ \A e \in C22_Evicted, k \in C22_Kept : C22_Rank(e) < C22_Rank(k)]_vars


----------------------------------------------------------------------------
(* Claims on the exchange rates *)

(* the step is an _initial_load or an update() of the run loop *)
CcAttempt == checks' = checks + 1 \/ (cpc = "constructed" /\ cpc' = "loaded")
CcBackedOff == cc_last # NoOutcome /\ cc_last[1].backoffs > 0

(* the k-th delay of the sequence 1, 2, 4, 8, 16, 32, 60, 60, ... minutes *)
C23_Delay(k) == 60 * Min(2 ^ (k - 1), 60)

(* C23: the k-th of consecutive attempts that back off since the backoff
   was last reset schedules the next check 1, 2, 4, 8, 16, 32, 60, 60, ...
   minutes ahead; a refresh scheduled from a parseable Last-Modified resets
   the backoff, so that the next backoff is 1 minute again *)
C23_BackoffGrowth ==
    [][CcAttempt =>
        /\ cc_last'[1].backoffs > 0 => next_check_at' = {clock' + C23_Delay(streak')}
        /\ cc_last'[1].reset => streak' = 0 /\ backoff_minutes' = BACKOFF_MIN_INIT]_vars

(* the eighth unchanged or failed check after a scheduled initial load *)
C23_Witness ==
    /\ CcBackedOff
    /\ Parseable(cc_last_modified)
    /\ streak = 8
    /\ next_check_at = {clock + 3600}


(* C24: once _initial_load has returned a rate table is loaded in every
   state, and an update() that obtains no new data leaves the table the one
   it was *)
C24_NeverUnloaded ==
    /\ [](cpc # "constructed" => converter # <<>>)
    /\ [][checks' = checks + 1 /\ ~cc_last'[1].installed => converter' = converter]_vars

(* a check that obtained nothing although the ECB had published since the
   table in use was downloaded *)
C24_Witness ==
    /\ checks > 0
    /\ cc_last # NoOutcome /\ ~cc_last[1].installed
    /\ converter # <<>> /\ converter[1].published < server


(* C25: whatever update() does, an exception leaving it included, the next
   check is defined afterwards and the thread is still in its loop; when no
   new table was installed the next check lies a minute or more after the
   attempt *)
C25_LoopGoesOn ==
    [][checks' = checks + 1 =>
        /\ next_check_at' # {}
        /\ cpc' = "running"
        /\ ~cc_last'[1].installed => \A t \in next_check_at' : t >= clock + 60]_vars

(* an exception left update() before any new table was installed, and the
   loop waits for the next check *)
C25_Witness ==
    /\ cc_last # NoOutcome /\ cc_last[1].kind = "raised" /\ ~cc_last[1].installed
    /\ cpc = "running"
    /\ checks > 0
    /\ ~Due


C26_Returned == cpc = "loaded"
C26_Kind(kind) == cc_last # NoOutcome /\ cc_last[1].kind = kind

(* C26: when _initial_load returns the updated event is set; after a
   download with a parseable Last-Modified the downloaded table is in use,
   the next check is due 1 day and 15 minutes after Last-Modified and the
   backoff is 1 minute; after a failed download the built-in table is in
   use and the backoff is armed, the next check due in a minute *)
C26_InitialLoad ==
    C26_Returned =>
        /\ cc_updated
        /\ C26_Kind("loaded") /\ Parseable(cc_last_modified) =>
              /\ converter = <<Downloaded(server)>>
              /\ next_check_at = {cc_last_modified[2] + 86400 + 15 * 60}
              /\ backoff_minutes = 1
        /\ C26_Kind("builtin") =>
              /\ converter = <<BuiltIn>>
              /\ next_check_at = {clock + 60}
              /\ backoff_minutes = 2

(* _initial_load has returned after a download with a parseable header *)
C26_Witness ==
    /\ C26_Returned
    /\ C26_Kind("loaded")
    /\ Parseable(cc_last_modified)
    /\ cc_updated
    /\ converter # <<>> /\ converter[1].source = "ecb"


(* C27: convert() called on a constructed CurrencyConverter, at whatever
   moment after the construction, finds a rate table and returns a float *)
C27_ConvertServes == conv # "AttributeError"


----------------------------------------------------------------------------
(* Further claims on the rate limiter *)

(* the entries recorded for key k change in this step *)
C28_Touched(k) ==
    windows'[k] # windows[k] \/ zsets'[k] # zsets[k] \/ expire_at'[k] # expire_at[k]

InCall(r) == pc[r] \in {"call", "fallback"}
C28_Returns(r) == InCall(r) /\ pc'[r] \notin {"call", "fallback"}
C28_Result(r) == IF req[r].phase = "first" THEN res'[r] ELSE pen'[r]

(* the credits that the entries of the call's own key hold in its window *)
C28_Own(r) ==
    LET q == req[r]
    IN  IF pc[r] = "call" /\ backend = "redis"
        THEN SumMembers(ZRemRangeByScore(LiveSet(zsets[q.key], expire_at[q.key], clock),
                                         0, q.now - WindowSeconds))
        ELSE SumCredits(Unexpired(windows[q.key], q.now - WindowSeconds))

(* C28: a step changes the entries of a key only when it is the step of an
   is_allowed call on that key, and the decision a call returns is the one
   that the entries of its own key, the limit, the cost and the time give *)
C28_KeysIndependent ==
    [][/\ \A k \in Keys : C28_Touched(k) =>
             \E r \in Requests : InCall(r) /\ pc'[r] # pc[r] /\ req[r].key = k
       /\ \A r \in Requests : C28_Returns(r) =>
             (C28_Result(r).allowed <=>
                C28_Own(r) + req[r].call_cost <= C28_Result(r).limit)]_vars

(* a call is allowed while another key's pool is used up *)
C28_Witness ==
    \E r \in Requests :
        /\ res[r].done /\ res[r].allowed
        /\ \E e \in BagToSet(res[r].before) :
              /\ e.key # res[r].key
              /\ e.ts > res[r].now - WindowSeconds
              /\ res[r].before[e] >= e.limit


(* the call of thread r returns a rejection *)
C29_Rejects(r) == C28_Returns(r) /\ ~C28_Result(r).allowed

(* what the limiter that decides holds for the key, less the entries with
   timestamp <= now - window_seconds *)
C29_Cleaned(r) ==
    LET q == req[r]
    IN  IF pc[r] = "call" /\ backend = "redis"
        THEN {e \in LiveSet(zsets[q.key], expire_at[q.key], clock) :
                e.score > q.now - WindowSeconds}
        ELSE SelectSeq(windows[q.key], LAMBDA e : e.timestamp > q.now - WindowSeconds)

(* C29, as stated: a rejected is_allowed call has recorded nothing, in
   particular no entry of its own in the key's sorted set *)
C29_AsClaimed ==
    \A r \in Requests : res[r].done /\ ~res[r].allowed =>
        \A e \in zsets[res[r].key] : e.member[1] # req[r].request_id

(* C29: the limiter whose decision is a rejection (the in-memory limiter, the
   Redis script, the fallback limiter) records nothing: it leaves what it
   holds for the key as it was, less the entries with timestamp
   <= now - window_seconds, and with the same credits in the window *)
C29_RejectionRecordsNothing ==
    [][\A r \in Requests : C29_Rejects(r) =>
         IF pc[r] = "call" /\ backend = "redis"
         THEN /\ zsets'[req[r].key] = C29_Cleaned(r)
              /\ expire_at' = expire_at
              /\ SumMembers(zsets'[req[r].key]) = C28_Own(r)
              /\ windows' = windows
         ELSE /\ windows'[req[r].key] = C29_Cleaned(r)
              /\ SumCredits(windows'[req[r].key]) = C28_Own(r)
              /\ zsets' = zsets /\ expire_at' = expire_at]_vars

(* a rejected call that found entries older than the window and dropped them *)
C29_Witness ==
    \E r \in Requests : res[r].done /\ ~res[r].allowed /\ res[r].dropped > 0


(* the cost the table gives: /servers = 3, then /server_prices = 5, else 1 *)
C30_Cost(path) ==
    IF Len(path) >= 2 /\ path[1] = "/server" /\ path[2] = "s" THEN 3
    ELSE IF Len(path) >= 2 /\ path[1] = "/server" /\ path[2] = "_prices" THEN 5
    ELSE 1

C30_Charged(r) == res[r].done => res[r].cost = C30_Cost(req[r].path)

(* C30, as stated: every request is charged the cost the table gives for
   its path, and every response reports that cost in X-RateLimit-Cost *)
C30_AsClaimed ==
    \A r \in Requests :
        /\ C30_Charged(r)
        /\ response[r] # NoResponse => response[r][1].cost = C30_Cost(req[r].path)

(* C30: every request is charged the cost the table gives for its path:
   that of the first entry whose path is the request's or begins it, 1 when
   there is none; X-RateLimit-Cost reports that cost on every response but a
   401, where it reports the cost plus the penalty credits *)
C30_PathCost ==
    \A r \in Requests :
        /\ C30_Charged(r)
        /\ response[r] # NoResponse =>
              response[r][1].cost =
                 IF response[r][1].status_code = 401
                 THEN C30_Cost(req[r].path) + UNAUTHORIZED_PENALTY_CREDITS
                 ELSE C30_Cost(req[r].path)

(* a request below /server_prices answered 200 with X-RateLimit-Cost 5 *)
C30_Witness ==
    /\ response[1] # NoResponse
    /\ response[1][1].status_code = 200
    /\ response[1][1].cost = 5
    /\ req[1].path = <<"/server", "_prices", "/aws">>

----------------------------------------------------------------------------
(* Claims on the two tiers of the token cache *)

(* call j is the first call after call i that presents the token of call i *)
C31_Next(i, j) ==
    /\ i < j
    /\ vlog[j].token = vlog[i].token
    /\ \A k \in (i + 1)..(j - 1) : vlog[k].token # vlog[i].token

C31_InTTL(i, j) == vlog[j].began <= vlog[i].ended + L1_TTL

C31_FromL1(i, j) ==
    /\ vlog[j].via = "l1"
    /\ vlog[j].failed = {}
    /\ vlog[j].result = vlog[i].result

(* the step in which a call returns what it found in the shared tier *)
C31_Hit == Len(vlog') = Len(vlog) + 1 /\ vlog'[Len(vlog')].via = "l2"

C31_Stored(token) == l2[L2Key(get_token_cache_key(token))]

(* what the call that hits the shared tier does *)
C31_Backfill ==
    LET c == vlog'[Len(vlog')]
    IN  /\ C31_Stored(c.token) # <<>>
        /\ c.result = UserFromJson(C31_Stored(c.token)[1].data)
        /\ c.result = UserOf(Introspection(c.token))
        /\ ~InCache(L1Get(l1, C18_Key(c), clock).cache, C18_Key(c))
        /\ InCache(l1', C18_Key(c))
        /\ EntryOf(l1', C18_Key(c)) =
              [key |-> C18_Key(c), user |-> c.result, cached_time |-> clock]
        /\ UNCHANGED <<l2, idp_calls, vpc>>

(* C31, as stated: after a call that was served from the shared tier, the
   next call with the same token within the L1 TTL is served from L1 *)
C31_AsClaimed ==
    \A i, j \in 1..Len(vlog) :
        (vlog[i].via = "l2" /\ C31_Next(i, j) /\ C31_InTTL(i, j)) => C31_FromL1(i, j)

(* C31: a call that misses L1 and finds its token in the shared tier returns
   the stored identity without an introspection request and inserts it in
   L1; the next call with the same token within the L1 TTL is served from
   L1, without Redis, provided fewer than L1_MAX_SIZE other tokens were
   served in between *)
C31_SharedTierHit ==
    /\ [](\A i, j \in 1..Len(vlog) :
            (/\ vlog[i].via = "l2"
             /\ C31_Next(i, j)
             /\ C31_InTTL(i, j)
             /\ Cardinality(C19_Others(i, j)) < L1MaxSize) => C31_FromL1(i, j))
    /\ [][C31_Hit => C31_Backfill]_vars

C31_Witness ==
    \E i, j \in 1..Len(vlog) :
        /\ vlog[i].via = "l2"
        /\ i + 1 < j
        /\ C31_Next(i, j)
        /\ vlog[j].began = vlog[i].ended + L1_TTL
        /\ C31_FromL1(i, j)

(* the times at which the identity provider validated the token of call i
   before call i began: in this process, and in the other workers *)
C32_ValidatedAt(i) ==
    {vlog[k].ended : k \in {x \in 1..(i - 1) :
        vlog[x].token = vlog[i].token /\ C19_Validated(vlog[x])}}
    \cup {idp_calls[k].at : k \in {x \in SentBy(2) :
        idp_calls[x].token = vlog[i].token /\ idp_calls[x].at <= vlog[i].began}}

C32_Cached(i) == vlog[i].via \in {"l1", "l2"}

C32_ChangedL2 == {k \in L2Keys : l2'[k] # l2[k]}

(* C32: an identity that verify_token returns from L1 or L2 is the one the
   identity provider gave for the token, to this worker or another, at most
   L1_TTL + L2_TTL seconds before the call; and L2 is written only by a call
   that has validated the token, with the L2 TTL counted from then *)
C32_BoundedStaleness ==
    /\ [](\A i \in 1..Len(vlog) : C32_Cached(i) =>
            /\ vlog[i].result = UserOf(Introspection(vlog[i].token))
            /\ \E v \in C32_ValidatedAt(i) : vlog[i].began - v <= L1_TTL + L2_TTL)
    /\ [][C32_ChangedL2 # {} =>
            /\ Len(idp_calls') = Len(idp_calls) + 1
            /\ idp_calls'[Len(idp_calls')].at = clock
            /\ C32_ChangedL2 = {L2Key(get_token_cache_key(idp_calls'[Len(idp_calls')].token))}
            /\ \A k \in C32_ChangedL2 : l2'[k][1].expires = clock + L2_TTL]_vars

(* a call served from L1 an L1 TTL after the backfill from an L2 entry that
   another worker had written and that was about to expire *)
C32_Witness ==
    \E i \in 1..Len(vlog) :
        /\ vlog[i].via = "l1"
        /\ C32_ValidatedAt(i) # {}
        /\ \A v \in C32_ValidatedAt(i) : vlog[i].began - v = L1_TTL + L2_TTL - 1
        /\ \A k \in 1..(i - 1) : ~C19_Validated(vlog[k])

(* call i asked the identity provider and the validation failed *)
C33_Failed(i) == vlog[i].via = "idp" /\ vlog[i].resp # "ok"

(* between call i and call j no call has validated the token *)
C33_NoneSince(i, j) ==
    \A k \in (i + 1)..(j - 1) : ~(vlog[k].token = vlog[i].token /\ C19_Validated(vlog[k]))

(* the step in which a call returns after a failed validation *)
C33_Failing ==
    /\ Len(vlog') = Len(vlog) + 1
    /\ vlog'[Len(vlog')].via = "idp"
    /\ vlog'[Len(vlog')].resp # "ok"

(* C33, as stated: after a failed validation every later call with the
   token, as long as none has validated it since, asks the identity
   provider again *)
C33_AsClaimed ==
    \A i, j \in 1..Len(vlog) :
        (/\ i < j
         /\ vlog[j].token = vlog[i].token
         /\ C33_Failed(i)
         /\ C33_NoneSince(i, j)) => vlog[j].via = "idp"

(* C33: a call whose validation fails returns None and leaves L1 and L2 as
   they are; no call returns None without asking the identity provider; and
   after a failed validation in a call that had read both tiers, every later
   call with the token asks the identity provider again as long as none has
   validated the token since *)
C33_NoNegativeCaching ==
    /\ [](\A j \in 1..Len(vlog) : vlog[j].result = <<>> => C33_Failed(j))
    /\ [](\A i, j \in 1..Len(vlog) :
            (/\ i < j
             /\ vlog[j].token = vlog[i].token
             /\ C33_Failed(i)
             /\ vlog[i].failed = {}
             /\ C33_NoneSince(i, j)) => vlog[j].via = "idp")
    /\ [][C33_Failing =>
            /\ vlog'[Len(vlog')].result = <<>>
            /\ UNCHANGED <<l1, l2>>]_vars

(* a token rejected twice in a row, each time by the identity provider, the
   second time although another token was validated and cached in between *)
C33_Witness ==
    \E i, j \in 1..Len(vlog) :
        /\ i + 1 < j
        /\ vlog[j].token = vlog[i].token
        /\ C33_Failed(i)
        /\ vlog[i].failed = {}
        /\ C33_Failed(j)
        /\ Len(l1) > 0

----------------------------------------------------------------------------
(* Further claims on the exchange rates *)

(* the Last-Modified that a HEAD request gets differs from the stored one *)
C34_Changed == cc_last_modified # <<"date", server>>

C34_Kind == cc_last[1].kind

C34_Armed ==
    next_check_at' = {clock' + 60 * Min(backoff_minutes, BACKOFF_MAX_MINUTES)}

(* C34: a check whose download fails leaves converter and _last_modified as
   they are and arms the backoff, and until a download succeeds the stored
   Last-Modified differs from the one the ECB reports, so that every later
   check whose HEAD succeeds attempts the download again; a check that
   finds the stored Last-Modified never downloads *)
C34_DownloadRetry ==
    /\ []((cc_last # NoOutcome /\ C34_Kind = "download failed") => C34_Changed)
    /\ [][checks' = checks + 1 =>
            /\ C34_Kind' = "download failed" =>
                  /\ C34_Changed
                  /\ UNCHANGED <<converter, cc_last_modified>>
                  /\ C34_Armed
            /\ (C34_Changed /\ C34_Kind' # "head failed") =>
                  C34_Kind' \in {"download failed", "updated"}
            /\ ~C34_Changed =>
                  /\ C34_Kind' \in {"head failed", "unchanged"}
                  /\ UNCHANGED <<converter, cc_last_modified>>]_vars

(* the download of a new publication has failed, the table and the
   Last-Modified of the publication before are still in place *)
C34_Witness ==
    /\ cc_last # NoOutcome
    /\ C34_Kind = "download failed"
    /\ converter # <<>>
    /\ converter[1].source = "ecb"
    /\ cc_last_modified = <<"date", converter[1].published>>
    /\ server > converter[1].published
    /\ streak >= 2

----------------------------------------------------------------------------
(* Further claims on the dataset manager *)

C35_Tracked == {tmpfiles[i] : i \in 1..Len(tmpfiles)}

(* C35: whenever the Database is ready, the file of the published engine is
   tracked in tmpfiles and on disk *)
C35_PublishedIsResident ==
    ready => /\ engine # <<>>
             /\ engine[1] \in C35_Tracked
             /\ engine[1] \in resident

(* C36: whenever the Database is ready, db_hash is the hash of the upstream
   version whose content the file of the published engine holds *)
C36_HashMatchesContent ==
    (ready /\ engine # <<>>) => db_hash = content[engine[1]]

(* the files that update() calls which raised had copied and tracked *)
C37_LeftByFailures == {calls[i].tmpfile : i \in {j \in 1..Len(calls) : calls[j].raised}} \ {NoFile}

(* C37: at most 3 snapshot files are on disk, and no file is on disk that an
   update() call which failed had copied *)
C37_BoundedStorage ==
    /\ Cardinality(resident) <= 3
    /\ C37_LeftByFailures \cap resident = {}

----------------------------------------------------------------------------
(* Claims on the Redis limiter *)

(* the cost of the calls admitted for the key of call o, with its limit,
   within the window that ends at call o, whichever limiter decided them *)
C38_AdmittedInWindow(o) ==
    CostOf(o.before, {e \in BagToSet(o.before) :
             /\ e.key = o.key
             /\ e.limit = o.limit
             /\ e.via \in {"redis", "fallback"}
             /\ e.ts > o.now - WindowSeconds
             /\ e.ts <= o.now})

(* C38: over the Redis limiter, with script calls failing and being served
   by the fallback limiter, the costs of the calls admitted for a key with
   limit L within a window sum to at most L *)
C38_NoOvershoot ==
    \A o \in Outcomes :
        (o.done /\ o.allowed /\ o.via \in {"redis", "fallback"}) =>
            C38_AdmittedInWindow(o) + o.cost <= o.limit

(* the step in which the script admits the call of thread 1 *)
C39_Admitting == backend = "redis" /\ pc[1] = "call" /\ admitted' # admitted

(* the entries of the key that the script finds at the call and keeps *)
C39_Found ==
    ZRemRangeByScore(LiveSet(zsets[req[1].key], expire_at[req[1].key], clock),
                     0, req[1].now - WindowSeconds)

(* C39: every call that the Redis script admits adds an entry to the sorted
   set of the key and raises the cost recorded there by its credit_cost, the
   penalty call, made with the request id of the request it follows,
   included *)
C39_AdmissionRecorded ==
    [][C39_Admitting =>
        /\ Cardinality(zsets'[req[1].key]) = Cardinality(C39_Found) + 1
        /\ SumMembers(zsets'[req[1].key]) = SumMembers(C39_Found) + req[1].call_cost
        /\ \E e \in zsets'[req[1].key] \ C39_Found :
              e = [member |-> MemberId(req[1].request_id, req[1].call_cost),
                   score |-> req[1].now]]_vars

(* an admitted penalty call next to the entry of the request it follows *)
C39_Witness ==
    /\ backend = "redis"
    /\ pen[1].done
    /\ pen[1].allowed
    /\ \E e, f \in zsets[req[1].key] :
          /\ e.member = MemberId(req[1].request_id, req[1].cost)
          /\ f.member = MemberId(req[1].request_id, UNAUTHORIZED_PENALTY_CREDITS)
    /\ SumMembers(zsets[req[1].key]) > req[1].cost + UNAUTHORIZED_PENALTY_CREDITS

====
